---------------------------- MODULE Spec2Model ----------------------------
(***************************************************************************)
(* A model of the Zypher trading-data backend: the CandleGenerator (price  *)
(* process, regime machine, support/resistance tracker, circuit breakers), *)
(* the TradingService (timers, candle close, manual control, history) and  *)
(* the /history route.                                                     *)
(*                                                                         *)
(* Numbers.  JavaScript numbers are modelled in fixed point:               *)
(*   - a price is an integer number of ticks of 0.0001 (10.00 is 100000);  *)
(*   - a fraction (rate, strength, trend, a Math.random() draw) is an      *)
(*     integer number of 1/10000 (1.0 is ONE);                             *)
(*   - a volume is an integer number of 0.001;                             *)
(*   - an instant is an integer number of milliseconds, as Date.now(),     *)
(*     counted from an origin on a minute boundary.                        *)
(* Products are truncated toward zero.  Math.random() is a choice from     *)
(* RandomVals; a function that draws random numbers is modelled by the set *)
(* of the results it can return.                                           *)
(***************************************************************************)
EXTENDS Integers, Sequences, FiniteSets, TLC

\* ------------------------------------------------------------------------
\* Fixed-point arithmetic
\* ------------------------------------------------------------------------

\* 1.0 as a fraction
ONE == 10 * 1000

\* TRADING_CONSTANTS.PRICE_SCALE
PRICE_SCALE == 100

\* ticks of a price per 1.0, and per 1 / PRICE_SCALE (the step roundPrice
\* rounds to)
TicksPerUnit == 100 * PRICE_SCALE

TicksPerCent == TicksPerUnit \div PRICE_SCALE

\* units of a volume per 1.0, and per 0.01 (the step roundVolume rounds to)
VolumePerUnit == 10 * 100

VolumePerCent == VolumePerUnit \div 100

Abs(x) == IF x < 0 THEN -x ELSE x

Max2(a, b) == IF a >= b THEN a ELSE b

Min2(a, b) == IF a <= b THEN a ELSE b

\* a * f for a fraction f, truncated toward zero
MulF(a, f) ==
  IF (a >= 0) = (f >= 0) THEN (Abs(a) * Abs(f)) \div ONE
  ELSE -((Abs(a) * Abs(f)) \div ONE)

\* a / b as a fraction, truncated toward zero (b > 0)
DivF(a, b) ==
  IF a >= 0 THEN (a * ONE) \div b ELSE -((Abs(a) * ONE) \div b)

RECURSIVE SumSeq(_)
SumSeq(s) == IF s = <<>> THEN 0 ELSE Head(s) + SumSeq(Tail(s))

RECURSIVE MaxSeq(_)
MaxSeq(s) == IF Len(s) = 1 THEN s[1] ELSE Max2(Head(s), MaxSeq(Tail(s)))

RECURSIVE MinSeq(_)
MinSeq(s) == IF Len(s) = 1 THEN s[1] ELSE Min2(Head(s), MinSeq(Tail(s)))

\* Array.prototype.slice(-n)
LastN(s, n) == IF Len(s) <= n THEN s ELSE SubSeq(s, Len(s) - n + 1, Len(s))

\* push, then shift while longer than cap
PushBounded(s, x, cap) ==
  IF Len(s) + 1 > cap THEN Tail(Append(s, x)) ELSE Append(s, x)

\* The values a Math.random() draw is modelled with: 0, 0.5 and 0.9999
RandomVals == {0, ONE \div 2, ONE - 1}

\* The least and the greatest value of a draw
RandomMin == 0

RandomMax == ONE - 1

\* The draws that size a candle's wicks and volume (wickMultiplier, the high
\* wick, the low wick, the volume variation) are modelled jointly: all least,
\* all greatest, and the greatest multiplier with only one of the two wicks
CandleDraws ==
  {[mult |-> RandomMin, high |-> RandomMin, low |-> RandomMin, vol |-> RandomMin],
   [mult |-> RandomMax, high |-> RandomMax, low |-> RandomMax, vol |-> RandomMax],
   [mult |-> RandomMax, high |-> RandomMax, low |-> RandomMin, vol |-> RandomMin],
   [mult |-> RandomMax, high |-> RandomMin, low |-> RandomMax, vol |-> RandomMax]}

\* The draws that size a random event (its cool-down, its size), jointly
EventDraws ==
  {[cooldown |-> RandomMin, size |-> RandomMin],
   [cooldown |-> RandomMax, size |-> RandomMax]}

NoValue == "none"

\* ------------------------------------------------------------------------
\* TRADING_CONSTANTS and the generator's limits
\* ------------------------------------------------------------------------

DEFAULT_BASE_PRICE == 100000

DEFAULT_VOLATILITY == 200

DEFAULT_TREND_STRENGTH == 1000

DEFAULT_VOLUME_BASE == 100000

\* milliseconds
DEFAULT_AUTO_INTERVAL == 60000

MAX_NORMAL_CHANGE == 250

MAX_VOLATILE_CHANGE == 500

MAX_EXTREME_CHANGE == 1000

MAX_DEVIATION_FROM_MA == 3000

CONSOLIDATION_PROBABILITY == 7000

CRASH_SPEED_MULTIPLIER == 30000

\* Math.max(0.01, ...): the price floor, in ticks
MIN_PRICE == 100

Regimes == {"accumulation", "markup", "distribution", "markdown"}

\* roundLevels of updateSupportResistance, in ticks
RoundLevels ==
  <<10 * TicksPerUnit, 25 * TicksPerUnit, 50 * TicksPerUnit, 100 * TicksPerUnit,
    150 * TicksPerUnit, 200 * TicksPerUnit, 250 * TicksPerUnit, 300 * TicksPerUnit,
    400 * TicksPerUnit, 500 * TicksPerUnit>>

\* Math.round(price * PRICE_SCALE) / PRICE_SCALE
roundPrice(price) == ((price + (TicksPerCent \div 2)) \div TicksPerCent) * TicksPerCent

\* Math.round(volume * 100) / 100
roundVolume(volume) ==
  ((volume + (VolumePerCent \div 2)) \div VolumePerCent) * VolumePerCent


\* ------------------------------------------------------------------------
\* CandleGenerator
\* ------------------------------------------------------------------------

\* The find of addSupportResistance matching a level at the very price only
ExistingLevelAtPrice(levels, price) ==
  LET near == {i \in 1..Len(levels) : levels[i].price = price}
  IN IF near = {} THEN 0 ELSE CHOOSE k \in near : \A m \in near : k <= m

\* supportResistanceLevels.find(level => |level.price - price| / price < 0.02):
\* the index of the level found, or 0
ExistingLevel(levels, price) ==
  LET near == {i \in 1..Len(levels) : Abs(levels[i].price - price) * 50 < price}
  IN IF near = {} THEN 0 ELSE CHOOSE k \in near : \A m \in near : k <= m

\* addSupportResistance without the Math.min(1.0, ...) on the strengthened
\* level
addSupportResistanceUncapped(levels, price, strength, now) ==
  LET i == ExistingLevel(levels, price)
  IN IF i # 0
     THEN [levels EXCEPT ![i] =
             [@ EXCEPT !.strength = @ + MulF(strength, 2000),
                       !.touches = @ + 1,
                       !.lastTouch = now]]
     ELSE Append(levels, [price |-> price, strength |-> Min2(ONE, strength),
                          touches |-> 1, lastTouch |-> now])

\* addSupportResistance: strengthen the level found, or push a new one
addSupportResistance(levels, price, strength, now) ==
  LET i == ExistingLevel(levels, price)
  IN IF i # 0
     THEN [levels EXCEPT ![i] =
             [@ EXCEPT !.strength = Min2(ONE, @ + MulF(strength, 2000)),
                       !.touches = @ + 1,
                       !.lastTouch = now]]
     ELSE Append(levels, [price |-> price, strength |-> Min2(ONE, strength),
                          touches |-> 1, lastTouch |-> now])

\* An addSupportResistance call on acc.levels; acc.merged collects the prices
\* of the levels the calls found and strengthened
AddLevel(acc, price, strength, now) ==
  LET i == ExistingLevel(acc.levels, price)
  IN [levels |-> addSupportResistance(acc.levels, price, strength, now),
      merged |-> IF i # 0 THEN acc.merged \cup {acc.levels[i].price} ELSE acc.merged]

\* new CandleGenerator(): the field initialisers and the constructor
NewCandleGenerator(now) ==
  [basePrice |-> DEFAULT_BASE_PRICE,
   volatility |-> DEFAULT_VOLATILITY,
   trendStrength |-> DEFAULT_TREND_STRENGTH,
   volumeBase |-> DEFAULT_VOLUME_BASE,
   currentTrend |-> 0,
   lastPrice |-> DEFAULT_BASE_PRICE,
   marketRegime |-> "accumulation",
   regimeStartTime |-> now,
   regimeCandleCount |-> 0,
   supportResistanceLevels |-> addSupportResistance(<<>>, DEFAULT_BASE_PRICE, ONE, now),
   recentHighs |-> <<>>,
   recentLows |-> <<>>,
   volatilityHistory |-> <<>>,
   consolidationCounter |-> 0,
   eventCooldown |-> 0]

updatePriceHistory(g, price) ==
  [g EXCEPT !.recentHighs = PushBounded(@, price, 100),
            !.recentLows = PushBounded(@, price, 100)]

\* getAverageVolatility() > threshold, for a threshold that is a fraction
AverageVolatilityAbove(g, threshold) ==
  IF Len(g.volatilityHistory) = 0 THEN g.volatility > threshold
  ELSE SumSeq(g.volatilityHistory) > threshold * Len(g.volatilityHistory)

getMovingAverage(g) ==
  LET prices == g.recentHighs \o g.recentLows
      recentPrices == LastN(prices, 50)
  IN IF Len(prices) = 0 THEN 0 ELSE SumSeq(recentPrices) \div Len(recentPrices)

\* The switch of updateMarketRegime with the markup case leading back to
\* accumulation
NextRegimeBackFromMarkup(r) ==
  CASE r = "accumulation" -> "markup"
    [] r = "markup" -> "accumulation"
    [] r = "distribution" -> "markdown"
    [] r = "markdown" -> "accumulation"

\* The regime a transition leads to
NextRegime(r) ==
  CASE r = "accumulation" -> "markup"
    [] r = "markup" -> "distribution"
    [] r = "distribution" -> "markdown"
    [] r = "markdown" -> "accumulation"

\* The price-trend confirmation of each regime's transition; priceChange is
\* (newPrice - oldPrice) / oldPrice, compared without dividing
TrendConfirms(r, oldPrice, newPrice) ==
  LET d == newPrice - oldPrice
  IN CASE r = "accumulation" -> d * 20 > oldPrice
       [] r = "markup" -> d * 50 < oldPrice
       [] r = "distribution" -> d * 20 < -oldPrice
       [] r = "markdown" -> d * 50 > -oldPrice

\* The second draw's threshold of each regime's switch case
RegimeCoin(r) ==
  CASE r = "accumulation" -> 4000
    [] r = "markup" -> 3000
    [] r = "distribution" -> 4000
    [] r = "markdown" -> 3000

\* The reset with currentTrend left as it was
RegimeChangedKeepingTrend(g, regime, now) ==
  [g EXCEPT !.marketRegime = regime,
            !.regimeStartTime = now,
            !.regimeCandleCount = 0]

\* The reset applied when the regime has changed
RegimeChanged(g, regime, now) ==
  [g EXCEPT !.marketRegime = regime,
            !.regimeStartTime = now,
            !.regimeCandleCount = 0,
            !.currentTrend = 0]

\* updateMarketRegime without candlesSinceStart > 40 in shouldTransition
updateMarketRegimeAtAnyCount(g, now) ==
  LET recentPrices == LastN(g.recentHighs, 30)
      oldPrice == recentPrices[1]
      newPrice == recentPrices[Len(recentPrices)]
  IN IF Len(recentPrices) < 10 THEN {g}
     ELSE UNION {
            IF r1 < 3000
            THEN IF TrendConfirms(g.marketRegime, oldPrice, newPrice)
                 THEN {RegimeChanged(g, NextRegime(g.marketRegime), now)}
                 ELSE {IF r2 < RegimeCoin(g.marketRegime)
                       THEN RegimeChanged(g, NextRegime(g.marketRegime), now)
                       ELSE g : r2 \in RandomVals}
            ELSE {g}
            : r1 \in RandomVals}

\* updateMarketRegime: the set of generator states it can leave
updateMarketRegime(g, now) ==
  LET recentPrices == LastN(g.recentHighs, 30)
      oldPrice == recentPrices[1]
      newPrice == recentPrices[Len(recentPrices)]
  IN IF Len(recentPrices) < 10 THEN {g}
     ELSE IF ~(g.regimeCandleCount > 40) THEN {g}
     ELSE UNION {
            IF r1 < 3000
            THEN IF TrendConfirms(g.marketRegime, oldPrice, newPrice)
                 THEN {RegimeChanged(g, NextRegime(g.marketRegime), now)}
                 ELSE {IF r2 < RegimeCoin(g.marketRegime)
                       THEN RegimeChanged(g, NextRegime(g.marketRegime), now)
                       ELSE g : r2 \in RandomVals}
            ELSE {g}
            : r1 \in RandomVals}

\* calculateManualChange with the direction left out
calculateManualChangeUpOnly(currentPrice, direction, speed, intensity) ==
  MulF(MulF(currentPrice, speed), intensity)

calculateManualChange(currentPrice, direction, speed, intensity) ==
  LET dir == IF direction = "up" THEN 1 ELSE -1
  IN dir * MulF(MulF(currentPrice, speed), intensity)

\* (Math.random() - 0.5) * 2
RandomFactor(r) == 2 * r - ONE

calculateConsolidationMove(currentPrice, r) ==
  MulF(MulF(MulF(currentPrice, 100), RandomFactor(r)), 5000)

updateRealisticTrend(g, randomFactor, regimeBias) ==
  LET decayed == MulF(g.currentTrend, 9200)
      trendIncrement == MulF(MulF(randomFactor, 3000) + MulF(regimeBias, 7000), 1500)
  IN [g EXCEPT !.currentTrend = Max2(-ONE, Min2(ONE, decayed + trendIncrement))]

\* calculateTrendingMove with the draw r: the move and the generator after it
calculateTrendingMove(g, currentPrice, volatility, trendStrength, r) ==
  LET randomFactor == RandomFactor(r)
      regimeBias == CASE g.marketRegime = "markup" -> 6000
                      [] g.marketRegime = "markdown" -> -6000
                      [] OTHER -> 0
      g1 == updateRealisticTrend(g, randomFactor, regimeBias)
      directionFactor == MulF(randomFactor, 4000) + MulF(g1.currentTrend, 6000)
      baseSize == MulF(currentPrice, volatility)
      moveSize == IF directionFactor < 0 THEN MulF(baseSize, CRASH_SPEED_MULTIPLIER)
                  ELSE baseSize
      change0 == MulF(moveSize, directionFactor)
      change1 == IF AverageVolatilityAbove(g1, MulF(volatility, 15000))
                 THEN MulF(change0, 13000) ELSE change0
      deviation == DivF(currentPrice - g.basePrice, g.basePrice)
      meanReversionStrength == MulF(Abs(deviation), 500)
      meanReversion == -MulF(MulF(deviation, meanReversionStrength), currentPrice)
  IN [val |-> change1 + meanReversion, g |-> g1, kind |-> "trend"]

\* triggerRandomEvent with a cooldown of 3 to 32 candles
triggerRandomEventShortCooldown(g, currentPrice, eventType, rc, rs) ==
  LET g1 == [g EXCEPT !.eventCooldown = 3 + MulF(30, rc)]
  IN IF eventType < 4000
     THEN [val |-> MulF(currentPrice, 500 + MulF(rs, 500)),
           g |-> [g1 EXCEPT !.consolidationCounter = 5], kind |-> "event"]
     ELSE IF eventType < 7000
     THEN [val |-> -MulF(currentPrice, 800 + MulF(rs, 700)),
           g |-> [g1 EXCEPT !.consolidationCounter = 8], kind |-> "event"]
     ELSE [val |-> -MulF(currentPrice, 500 + MulF(rs, 300)),
           g |-> [g1 EXCEPT !.consolidationCounter = 3], kind |-> "event"]

\* triggerRandomEvent: eventType, the cooldown draw and the size draw
triggerRandomEvent(g, currentPrice, eventType, rc, rs) ==
  LET g1 == [g EXCEPT !.eventCooldown = 30 + MulF(30, rc)]
  IN IF eventType < 4000
     THEN [val |-> MulF(currentPrice, 500 + MulF(rs, 500)),
           g |-> [g1 EXCEPT !.consolidationCounter = 5], kind |-> "event"]
     ELSE IF eventType < 7000
     THEN [val |-> -MulF(currentPrice, 800 + MulF(rs, 700)),
           g |-> [g1 EXCEPT !.consolidationCounter = 8], kind |-> "event"]
     ELSE [val |-> -MulF(currentPrice, 500 + MulF(rs, 300)),
           g |-> [g1 EXCEPT !.consolidationCounter = 3], kind |-> "event"]

ConsolidationMoves(g, currentPrice) ==
  {[val |-> calculateConsolidationMove(currentPrice, r), g |-> g,
    kind |-> "consolidation"] : r \in RandomVals}

\* calculateRealisticPriceChange with trending moves in every regime
calculateRealisticPriceChangeInAnyRegime(g, currentPrice, volatility, trendStrength) ==
  IF g.consolidationCounter > 0 THEN ConsolidationMoves(g, currentPrice)
  ELSE
    LET events ==
          IF g.eventCooldown = 0 /\ (\E r \in RandomVals : r < 100)
          THEN {triggerRandomEvent(g, currentPrice, e, d.cooldown, d.size) :
                  e \in RandomVals, d \in EventDraws}
          ELSE {}
        noEvent == g.eventCooldown # 0 \/ (\E r \in RandomVals : ~(r < 100))
        sideways == \E r \in RandomVals : ~(r > CONSOLIDATION_PROBABILITY)
        trending == \E r \in RandomVals : r > CONSOLIDATION_PROBABILITY
    IN events
       \cup (IF noEvent /\ sideways THEN ConsolidationMoves(g, currentPrice) ELSE {})
       \cup (IF noEvent /\ trending
             THEN {calculateTrendingMove(g, currentPrice, volatility, trendStrength, r) :
                     r \in RandomVals}
             ELSE {})

\* calculateRealisticPriceChange: the moves it can return
calculateRealisticPriceChange(g, currentPrice, volatility, trendStrength) ==
  IF g.consolidationCounter > 0 THEN ConsolidationMoves(g, currentPrice)
  ELSE
    LET events ==
          IF g.eventCooldown = 0 /\ (\E r \in RandomVals : r < 100)
          THEN {triggerRandomEvent(g, currentPrice, e, d.cooldown, d.size) :
                  e \in RandomVals, d \in EventDraws}
          ELSE {}
        noEvent == g.eventCooldown # 0 \/ (\E r \in RandomVals : ~(r < 100))
        sideways ==
          \/ \E r \in RandomVals : ~(r > CONSOLIDATION_PROBABILITY)
          \/ g.marketRegime \in {"accumulation", "distribution"}
        trending ==
          /\ \E r \in RandomVals : r > CONSOLIDATION_PROBABILITY
          /\ g.marketRegime \notin {"accumulation", "distribution"}
    IN events
       \cup (IF noEvent /\ sideways THEN ConsolidationMoves(g, currentPrice) ELSE {})
       \cup (IF noEvent /\ trending
             THEN {calculateTrendingMove(g, currentPrice, volatility, trendStrength, r) :
                     r \in RandomVals}
             ELSE {})

\* The per-step cap applyCircuitBreakers picks
MaxChange(g) ==
  IF g.eventCooldown > 0 /\ g.eventCooldown > 25 THEN MAX_EXTREME_CHANGE
  ELSE IF AverageVolatilityAbove(g, 300) THEN MAX_VOLATILE_CHANGE
  ELSE MAX_NORMAL_CHANGE

\* The capped change with the sign of the proposed one dropped
CapDeltaUnsigned(currentPrice, priceChange, maxChange) == MulF(currentPrice, maxChange)

\* The change capped: currentPrice * maxChange * direction
CapDelta(currentPrice, priceChange, maxChange) ==
  LET direction == IF priceChange > 0 THEN 1 ELSE -1
  IN direction * MulF(currentPrice, maxChange)

\* The target price with the lower bound of the band left out
ClampToBandNoFloor(movingAverage, newPrice) ==
  Min2(MulF(movingAverage, ONE + MAX_DEVIATION_FROM_MA), newPrice)

\* targetPrice: newPrice clamped to 30% around the moving average
ClampToBand(movingAverage, newPrice) ==
  LET maxPrice == MulF(movingAverage, ONE + MAX_DEVIATION_FROM_MA)
      minPrice == MulF(movingAverage, ONE - MAX_DEVIATION_FROM_MA)
  IN Max2(minPrice, Min2(maxPrice, newPrice))

\* applyCircuitBreakers: the bounded change and the generator after it
applyCircuitBreakers(g, currentPrice, priceChange) ==
  LET maxChange == MaxChange(g)
      capped == Abs(priceChange) * ONE > maxChange * currentPrice
      change1 == IF capped THEN CapDelta(currentPrice, priceChange, maxChange)
                 ELSE priceChange
      g1 == IF capped
            THEN [g EXCEPT !.consolidationCounter = Max2(@, 10)]
            ELSE g
      movingAverage == getMovingAverage(g1)
      newPrice == currentPrice + change1
      tooFar == /\ movingAverage > 0
                /\ Abs(newPrice - movingAverage) * ONE > MAX_DEVIATION_FROM_MA * movingAverage
      targetPrice == ClampToBand(movingAverage, newPrice)
  IN [val |-> IF tooFar THEN targetPrice - currentPrice ELSE change1,
      g |-> IF tooFar
            THEN [g1 EXCEPT !.consolidationCounter = 20,
                            !.currentTrend = MulF(@, 5000)]
            ELSE g1,
      maxChange |-> maxChange,
      capped |-> capped,
      tooFar |-> tooFar]

\* generateRealisticHighLow with the low wick added to the body, not
\* subtracted from it
generateRealisticHighLowWickAdded(open, close, volatility, rm, rh, rl) ==
  LET bodySize == Abs(close - open)
      priceLevel == Max2(open, close)
      wickMultiplier == 5000 + MulF(15000, rm)
      maxWickSize == MulF(Max2(bodySize, MulF(MulF(priceLevel, volatility), 3000)),
                          wickMultiplier)
  IN [high |-> Max2(open, close) + MulF(maxWickSize, rh),
      low |-> Max2(MIN_PRICE, Min2(open, close) + MulF(maxWickSize, rl))]

\* generateRealisticHighLow with the draws rm (wickMultiplier), rh and rl
generateRealisticHighLow(open, close, volatility, rm, rh, rl) ==
  LET bodySize == Abs(close - open)
      priceLevel == Max2(open, close)
      wickMultiplier == 5000 + MulF(15000, rm)
      maxWickSize == MulF(Max2(bodySize, MulF(MulF(priceLevel, volatility), 3000)),
                          wickMultiplier)
  IN [high |-> Max2(open, close) + MulF(maxWickSize, rh),
      low |-> Max2(MIN_PRICE, Min2(open, close) - MulF(maxWickSize, rl))]

\* volume * f for a fraction f
MulV(volume, f) == (volume * (f \div 10)) \div (ONE \div 10)

\* generateRealisticVolume with the draw r
generateRealisticVolume(g, baseVolume, priceChange, currentPrice, r) ==
  LET priceChangePercent == DivF(Abs(priceChange), currentPrice)
      priceImpact == ONE + priceChangePercent * 20
      v1 == MulV(baseVolume, priceImpact)
      regimeFactor == CASE g.marketRegime = "markup" -> 13000
                        [] g.marketRegime = "markdown" -> 18000
                        [] g.marketRegime = "distribution" -> 11000
                        [] g.marketRegime = "accumulation" -> 7000
      v2 == MulV(v1, regimeFactor)
      v3 == MulV(v2, 7000 + MulF(r, 6000))
  IN IF AverageVolatilityAbove(g, 300) THEN MulV(v3, 12000) ELSE v3

\* One pass of applySupportResistance's loop from level i on: the (close,
\* levels, touched) results it can end with.  touched is the set of prices of
\* the levels whose touches the pass incremented.
RECURSIVE SupportResistanceFrom(_, _, _, _, _, _)
SupportResistanceFrom(levels, i, targetPrice, currentPrice, direction, now) ==
  IF i > Len(levels)
  THEN {[close |-> targetPrice, levels |-> levels, touched |-> {}]}
  ELSE
    LET level == levels[i]
        nearStrong == /\ Abs(targetPrice - level.price) * 100 < level.price
                      /\ level.strength > 5000
        magnetStrength == MulF(level.strength, 5000)
        magnet == nearStrong /\ \E r \in RandomVals : r < magnetStrength
        noMagnet == ~nearStrong \/ \E r \in RandomVals : ~(r < magnetStrength)
        resistance == direction > 0 /\ targetPrice > level.price
                      /\ currentPrice <= level.price
        support == direction < 0 /\ targetPrice < level.price
                   /\ currentPrice >= level.price
        crossing == resistance \/ support
        holdsLevel == \E r \in RandomVals : r < MulF(level.strength, 6000)
        breaks == \E r \in RandomVals : ~(r < MulF(level.strength, 6000))
        weakened == [levels EXCEPT ![i].strength = MulF(@, 7000)]
    IN (IF magnet
        THEN {[close |-> level.price,
               levels |-> [levels EXCEPT ![i].touches = @ + 1, ![i].lastTouch = now],
               touched |-> {level.price}]}
        ELSE {})
       \cup
       (IF noMagnet /\ crossing /\ holdsLevel
        THEN {[close |-> IF resistance THEN MulF(level.price, 9980)
                         ELSE MulF(level.price, 10020),
               levels |-> levels, touched |-> {}]}
        ELSE {})
       \cup
       (IF noMagnet /\ crossing /\ breaks
        THEN SupportResistanceFrom(weakened, i + 1, targetPrice, currentPrice,
                                   direction, now)
        ELSE {})
       \cup
       (IF noMagnet /\ ~crossing
        THEN SupportResistanceFrom(levels, i + 1, targetPrice, currentPrice,
                                   direction, now)
        ELSE {})

\* applySupportResistance: the results it can return
applySupportResistance(levels, targetPrice, currentPrice, now) ==
  SupportResistanceFrom(levels, 1, targetPrice, currentPrice,
                        IF targetPrice > currentPrice THEN 1 ELSE -1, now)

\* The round-number loop of updateSupportResistance from index i on
RECURSIVE AddRoundLevels(_, _, _, _)
AddRoundLevels(acc, i, close, now) ==
  IF i > Len(RoundLevels) THEN acc
  ELSE AddRoundLevels(
         IF Abs(close - RoundLevels[i]) * 20 < RoundLevels[i]
         THEN AddLevel(acc, RoundLevels[i], 8000, now)
         ELSE acc,
         i + 1, close, now)

\* .filter(level => level.strength > 0.2)
RECURSIVE FilterWeak(_)
FilterWeak(levels) ==
  IF levels = <<>> THEN <<>>
  ELSE IF Head(levels).strength > 2000
       THEN <<Head(levels)>> \o FilterWeak(Tail(levels))
       ELSE FilterWeak(Tail(levels))

\* The clean-up that ends updateSupportResistance
PruneLevels(levels) == LastN(FilterWeak(levels), 15)

\* The levels .slice(-15) drops from those the filter let through
SlicedOff(levels) ==
  LET strong == FilterWeak(levels)
  IN {strong[i] : i \in 1..(Len(strong) - Len(PruneLevels(levels)))}

\* updateSupportResistance: the generator after it, and the prices of the
\* levels it merged a near-duplicate into
updateSupportResistance(g, high, low, close, now) ==
  LET recentHigh == MaxSeq(LastN(g.recentHighs, 20))
      recentLow == MinSeq(LastN(g.recentLows, 20))
      a0 == [levels |-> g.supportResistanceLevels, merged |-> {}]
      a1 == IF high >= recentHigh THEN AddLevel(a0, high, 6000, now) ELSE a0
      a2 == IF low <= recentLow THEN AddLevel(a1, low, 6000, now) ELSE a1
      a3 == AddRoundLevels(a2, 1, close, now)
  IN [g |-> [g EXCEPT !.supportResistanceLevels = PruneLevels(a3.levels)],
      merged |-> a3.merged,
      evicted |-> SlicedOff(a3.levels)]

\* A manual control's parameters as generateCandle receives them
NoManual == [direction |-> NoValue, speed |-> 100, intensity |-> ONE]

\* mode: manualDirection ? 'manual' : 'auto'
CandleMode(manualDirection) == IF manualDirection # NoValue THEN "manual" ELSE "auto"

\* The timestamp left as Date.now() gives it
MinuteFloorNone(now) == now

\* Math.floor(now / 60000) * 60000
MinuteFloor(now) == (now \div 60000) * 60000

\* No candle: what a caller holds when there is no previous candle
NoCandle ==
  [timestamp |-> 0, open |-> 0, high |-> 0, low |-> 0, close |-> 0, volume |-> 0,
   mode |-> NoValue]

\* previousCandle?.close || basePrice
PreviousClose(g, previousCandle) ==
  IF previousCandle = NoCandle \/ previousCandle.close = 0 THEN g.basePrice
  ELSE previousCandle.close

\* The price change of the step, before the circuit breakers
StepChanges(g, previousClose, manual) ==
  IF manual.direction # NoValue /\ manual.direction # "neutral"
  THEN {[val |-> calculateManualChange(previousClose, manual.direction,
                                       manual.speed, manual.intensity),
         g |-> g, kind |-> "manual"]}
  ELSE calculateRealisticPriceChange(g, previousClose, g.volatility, g.trendStrength)

\* The cool-down decrements of generateCandle
DecrementCooldowns(g) ==
  [g EXCEPT !.consolidationCounter = IF @ > 0 THEN @ - 1 ELSE @,
            !.eventCooldown = IF @ > 0 THEN @ - 1 ELSE @]

\* The candle a step returns
MakeCandle(timestamp, open, high, low, close, volume, manual) ==
  [timestamp |-> timestamp,
   open |-> roundPrice(open),
   high |-> roundPrice(high),
   low |-> roundPrice(low),
   close |-> roundPrice(close),
   volume |-> roundVolume(volume),
   mode |-> CandleMode(manual.direction)]

\* marketRegime, currentTrend and regimeCandleCount
RegimeOf(g) ==
  [marketRegime |-> g.marketRegime, currentTrend |-> g.currentTrend,
   regimeCandleCount |-> g.regimeCandleCount]

NoRegime == [marketRegime |-> NoValue, currentTrend |-> 0, regimeCandleCount |-> 0]

\* consolidationCounter and eventCooldown
CountersOf(g) ==
  [consolidationCounter |-> g.consolidationCounter, eventCooldown |-> g.eventCooldown]

NoCounters == [consolidationCounter |-> 0, eventCooldown |-> 0]

\* generateCandle: the results it can return.  Each result holds the candle,
\* the generator after the call and the call's locals, with the two
\* counters as the price change is computed and as it has been computed, and
\* the regime, trend and candle count as the regime update is reached and as
\* it is left.
generateCandle(g, previousCandle, manual, now) ==
  LET previousClose == PreviousClose(g, previousCandle)
      g1 == updatePriceHistory(
              [g EXCEPT !.regimeCandleCount = @ + 1, !.lastPrice = previousClose],
              previousClose)
      afterRegime == IF g1.regimeCandleCount > 30 THEN updateMarketRegime(g1, now)
                     ELSE {g1}
  IN UNION {
       UNION {
         LET cb == applyCircuitBreakers(ch.g, previousClose, ch.val)
             close0 == Max2(MIN_PRICE, previousClose + cb.val)
         IN UNION {
              LET gs == [cb.g EXCEPT !.supportResistanceLevels = sr.levels]
              IN {LET hl == generateRealisticHighLow(previousClose, sr.close,
                                                     g.volatility, d.mult, d.high, d.low)
                      volume == generateRealisticVolume(gs, g.volumeBase, cb.val,
                                                        previousClose, d.vol)
                      up == updateSupportResistance(gs, hl.high, hl.low, sr.close, now)
                  IN [candle |-> MakeCandle(MinuteFloor(now), previousClose, hl.high,
                                            hl.low, sr.close, volume, manual),
                      g |-> [up.g EXCEPT !.volatilityHistory =
                               PushBounded(@, DivF(Abs(cb.val), previousClose), 20)],
                      now |-> now,
                      draws |-> d,
                      regime |-> g.marketRegime,
                      previousClose |-> previousClose,
                      manual |-> manual,
                      rawChange |-> ch.val,
                      priceChange |-> cb.val,
                      maxChange |-> cb.maxChange,
                      capped |-> cb.capped,
                      tooFar |-> cb.tooFar,
                      kind |-> ch.kind,
                      regimeBefore |-> RegimeOf(g1),
                      regimeAfter |-> RegimeOf(g2),
                      countersBefore |-> CountersOf(DecrementCooldowns(g2)),
                      countersAfter |-> CountersOf(ch.g),
                      close |-> sr.close,
                      high |-> hl.high,
                      low |-> hl.low,
                      volume |-> volume,
                      touched |-> sr.touched,
                      merged |-> up.merged,
                      evicted |-> up.evicted]
                  : d \in CandleDraws}
              : sr \in applySupportResistance(cb.g.supportResistanceLevels, close0,
                                              previousClose, now)}
         : ch \in StepChanges(DecrementCooldowns(g2), previousClose, manual)}
       : g2 \in afterRegime}

\* ------------------------------------------------------------------------
\* State
\* ------------------------------------------------------------------------

VARIABLES
  now,               \* Date.now()
  candleGenerator,   \* the CandleGenerator's fields
  newCandle,         \* the candle the last generateCandle call returned
  step,              \* the locals of the last generateCandle call
  generated,         \* the number of generateCandle calls so far
  manualInput,       \* the manual parameters generateCandle is called with
  missedReads,       \* the calls so far that were given no previous candle
  quiet,             \* the quiet calls still to make before the draws are free
  eventCalls,        \* the numbers of the calls that triggered a random event
  interval,          \* process.env.AUTO_INTERVAL_MS, as startAutoMode parses it
  isRunning,         \* TradingService.isRunning
  autoInterval,      \* TradingService.autoInterval: a timer's id, or NoTimer
  priceStreamInterval, \* TradingService.priceStreamInterval
  timers,            \* the setInterval timers of the event loop not cleared
  timersCreated,     \* the number of setInterval calls so far
  loading,           \* the start() calls awaiting loadConfiguration
  closing,           \* the generateAndStoreCandle calls in flight
  candles,           \* the rows of the candles table, in insertion order
  live,              \* currentPrice and the currentCandle* fields
  starts,            \* the number of start() calls that found the service stopped
  stops,             \* the number of stop() calls that found it running
  stopped,           \* stop() has returned and start() was not called since
  afterStop,         \* what was published or fired while stopped
  session,           \* candles generated since the last start() or stop()
  failedWrites,      \* the storeCandle and cacheCandle calls that failed so far
  cachedStatus,      \* the Redis key SYSTEM_STATUS
  liveSnapshot,      \* the last payload given to broadcastLiveOHLC
  controls,          \* the rows of the manual_control table, in insertion order
  activeControl,     \* the last getActiveManualControl call: instant and result
  history,           \* the last /history request and its response
  posted,            \* the last /manual-control request and its response
  status,            \* the last getSystemStatus call: instant and result
  sockets            \* the Socket.IO clients: connection, rooms, events received

genVars ==
  <<now, candleGenerator, newCandle, step, generated, manualInput, missedReads, quiet,
    eventCalls>>

\* What the collaborators hold or did, besides the tables
ioVars == <<failedWrites, cachedStatus, liveSnapshot>>

svcVars ==
  <<interval, isRunning, autoInterval, priceStreamInterval, timers, timersCreated,
    loading, closing, candles, live, starts, stops, stopped, afterStop, session, ioVars>>

apiVars == <<controls, activeControl, history, posted, status, sockets>>

vars == <<genVars, svcVars, apiVars>>

\* null, for a timer handle
NoTimer == 0

\* new TradingService(): currentPrice and the live OHLC fields
NewLive(t) ==
  [currentPrice |-> DEFAULT_BASE_PRICE,
   currentCandleOpen |-> DEFAULT_BASE_PRICE,
   currentCandleHigh |-> DEFAULT_BASE_PRICE,
   currentCandleLow |-> DEFAULT_BASE_PRICE,
   currentCandleVolume |-> 0,
   currentCandleStartTime |-> t]

\* No getActiveManualControl call yet.  A call leaves its instant, the number
\* of rows the table held, whether the query succeeded and the index of the
\* row returned (0 for null)
NoQuery == [asked |-> FALSE, at |-> 0, rows |-> 0, ok |-> FALSE, row |-> 0]

\* No /history request yet
NoHistory ==
  [request |-> [symbol |-> NoValue, resolution |-> NoValue, from |-> 0, to |-> 0,
                countback |-> 0],
   s |-> NoValue, t |-> <<>>, c |-> <<>>]

\* No /manual-control request yet.  A request leaves its body, the HTTP
\* status of the response and the id of the row created (0 for none)
NoPost ==
  [request |-> [direction |-> NoValue, speed |-> 0, intensity |-> 0,
                duration_seconds |-> 0],
   code |-> 0, created |-> 0]

\* The Redis key SYSTEM_STATUS not set.  Set, it holds the isRunning and
\* lastCandleTime fields of the status written
NoStatus == [set |-> FALSE, isRunning |-> FALSE, lastCandleTime |-> 0]

\* No getSystemStatus call yet.  A call leaves the isRunning field it
\* returned, whether the status came from the cache, and what
\* TradingService.isRunning was as it returned
NoStatusCall ==
  [asked |-> FALSE, isRunning |-> FALSE, cached |-> FALSE, running |-> FALSE]

\* No live OHLC broadcast yet.  A broadcast leaves its timestamp and the
\* open, high, low, close and volume it carried
NoSnapshot ==
  [timestamp |-> 0, open |-> 0, high |-> 0, low |-> 0, close |-> 0, volume |-> 0]

\* new TradingService(), not started, and the tables empty
ServiceFresh ==
  /\ isRunning = FALSE
  /\ autoInterval = NoTimer
  /\ priceStreamInterval = NoTimer
  /\ timers = {}
  /\ timersCreated = 0
  /\ loading = <<>>
  /\ closing = <<>>
  /\ live = NewLive(now)
  /\ starts = 0
  /\ stops = 0
  /\ stopped = FALSE
  /\ afterStop = {}
  /\ session = 0
  /\ failedWrites = 0
  /\ cachedStatus = NoStatus
  /\ liveSnapshot = NoSnapshot

\* TRADING_CONSTANTS.SYMBOL, and the resolution generateCandle stamps
SYMBOL == "ZPHUSD"

\* The Socket.IO clients of a run
Clients == {1, 2}

\* No client has connected
NoSockets == [c \in Clients |-> [connected |-> FALSE, rooms |-> {}, updates |-> 0]]

\* broadcastCandle: io.emit('candle_update') reaches every connected client,
\* io.to(candle.symbol).emit('candle_update') those in the symbol's room;
\* updates is the number of candle_update events a client received for the
\* candle
broadcastCandle(s, symbol) ==
  [c \in Clients |->
     [s[c] EXCEPT !.updates =
        IF s[c].connected
        THEN 1 + (IF symbol \in s[c].rooms THEN 1 ELSE 0)
        ELSE 0]]

ApiFresh ==
  /\ controls = <<>>
  /\ activeControl = NoQuery
  /\ history = NoHistory
  /\ posted = NoPost
  /\ status = NoStatusCall
  /\ sockets = NoSockets

\* ------------------------------------------------------------------------
\* The generator driven on its own: a caller that calls generateCandle once
\* per interval with the last candle and the manual parameters in force
\* ------------------------------------------------------------------------

\* generateCandle calls per run
MaxSteps == 2

\* Calls per run, after the first, that are given no previous candle
MaxMissedReads == 1

\* The manual parameters a run starts with: none, or one of these controls
ManualInputs ==
  {NoManual,
   [direction |-> "up", speed |-> 200, intensity |-> 15000],
   [direction |-> "down", speed |-> 200, intensity |-> 15000],
   [direction |-> "neutral", speed |-> 100, intensity |-> ONE]}

\* The locals of a generateCandle call, before any call
NoStep ==
  [now |-> 0, regime |-> NoValue, previousClose |-> 0, manual |-> NoManual, rawChange |-> 0, priceChange |-> 0, maxChange |-> 0,
   capped |-> FALSE, tooFar |-> FALSE, kind |-> NoValue, close |-> 0, high |-> 0,
   low |-> 0, volume |-> 0, touched |-> {}, merged |-> {},
   countersBefore |-> NoCounters, countersAfter |-> NoCounters,
   regimeBefore |-> NoRegime, regimeAfter |-> NoRegime, evicted |-> {}]

\* What a generateCandle result leaves in step
StepOf(out) ==
  [now |-> out.now, regime |-> out.regime, previousClose |-> out.previousClose, manual |-> out.manual,
   rawChange |-> out.rawChange,
   priceChange |-> out.priceChange, maxChange |-> out.maxChange,
   capped |-> out.capped, tooFar |-> out.tooFar, kind |-> out.kind,
   close |-> out.close, high |-> out.high, low |-> out.low,
   volume |-> out.volume, touched |-> out.touched, merged |-> out.merged,
   countersBefore |-> out.countersBefore, countersAfter |-> out.countersAfter,
   regimeBefore |-> out.regimeBefore, regimeAfter |-> out.regimeAfter,
   evicted |-> out.evicted]

\* The numbers of the calls that triggered a random event, after the call
\* that returned out
EventCallsAfter(out) ==
  IF out.kind = "event" THEN Append(eventCalls, generated + 1) ELSE eventCalls

\* A candle an earlier session left at the price floor (0.01)
FloorCandle ==
  [timestamp |-> 0, open |-> MIN_PRICE, high |-> MIN_PRICE, low |-> MIN_PRICE,
   close |-> MIN_PRICE, volume |-> DEFAULT_VOLUME_BASE, mode |-> "auto"]

\* The last candle when a session starts: none, or one of an earlier session
CandlesAtStart == {NoCandle, FloorCandle}

GenInit ==
  /\ now = DEFAULT_AUTO_INTERVAL
  /\ candleGenerator = NewCandleGenerator(now)
  /\ newCandle \in CandlesAtStart
  /\ step = NoStep
  /\ generated = 0
  /\ manualInput \in ManualInputs
  /\ missedReads = 0
  /\ quiet = 0
  /\ eventCalls = <<>>
  /\ ServiceFresh
  /\ interval = DEFAULT_AUTO_INTERVAL
  /\ candles = IF newCandle = NoCandle THEN <<>> ELSE <<newCandle>>
  /\ ApiFresh

\* The previous candles a call can be given: the last one generated, or none
PreviousCandles ==
  {newCandle} \cup (IF generated > 0 /\ missedReads < MaxMissedReads THEN {NoCandle}
                    ELSE {})

\* One call of generateCandle
CallGenerator ==
  /\ \E previousCandle \in PreviousCandles :
       /\ \E out \in generateCandle(candleGenerator, previousCandle, manualInput, now) :
            /\ candleGenerator' = out.g
            /\ newCandle' = out.candle
            /\ step' = StepOf(out)
            /\ eventCalls' = EventCallsAfter(out)
       /\ missedReads' = IF previousCandle = NoCandle /\ generated > 0
                         THEN missedReads + 1 ELSE missedReads
  /\ generated' = generated + 1
  /\ now' = now + DEFAULT_AUTO_INTERVAL
  /\ UNCHANGED <<manualInput, quiet, svcVars, apiVars>>

GenerateCandle ==
  /\ generated < MaxSteps
  /\ CallGenerator

\* The manual control in force expires
ExpireControl ==
  /\ manualInput # NoManual
  /\ manualInput' = NoManual
  /\ UNCHANGED <<now, candleGenerator, newCandle, step, generated, missedReads, quiet,
               eventCalls,
               svcVars, apiVars>>

GenNext == GenerateCandle \/ ExpireControl

SpecGen == GenInit /\ [][GenNext]_vars

\* ------------------------------------------------------------------------
\* The generator over a long run.  The regime machine only moves after more
\* than 40 candles in a regime, so these runs open with quiet calls (every
\* draw 0.5, no wick, no magnet: the price stays where it is) on which the
\* regime moves as soon as it can, and then go on with every draw free.
\* ------------------------------------------------------------------------

\* Candles generated in the current regime when the quiet calls end
WarmCandles == 40

\* The quiet calls that end in the k-th regime of the cycle (0: accumulation)
WarmCalls(k) == k * (WarmCandles + 1) + WarmCandles

\* Calls per run after the quiet ones
MaxFreeCalls == 1

\* The manual parameters the calls after the quiet ones are made with
ManualInputsAfterQuiet ==
  {NoManual, [direction |-> "up", speed |-> 200, intensity |-> 15000]}

\* A result of generateCandle that leaves the price where it was
QuietResult(out) ==
  /\ out.kind = "consolidation"
  /\ out.rawChange = 0
  /\ out.close = out.previousClose
  /\ out.high = out.close
  /\ out.low = out.close
  /\ out.touched = {}

RegimeInit ==
  /\ now = DEFAULT_AUTO_INTERVAL
  /\ candleGenerator = NewCandleGenerator(now)
  /\ newCandle = NoCandle
  /\ step = NoStep
  /\ generated = 0
  /\ manualInput = NoManual
  /\ missedReads = MaxMissedReads
  /\ quiet \in {WarmCalls(k) : k \in 0..3}
  /\ eventCalls = <<>>
  /\ ServiceFresh
  /\ interval = DEFAULT_AUTO_INTERVAL
  /\ candles = <<>>
  /\ ApiFresh

\* A quiet generateCandle call; the last one is followed by the creation of
\* the control, if any, the remaining calls are made under
QuietCandle ==
  /\ quiet > 0
  /\ LET outs == {out \in generateCandle(candleGenerator, newCandle, NoManual, now) :
                    QuietResult(out)}
         moved == {out \in outs : out.g.marketRegime # candleGenerator.marketRegime}
     IN \E out \in (IF moved # {} THEN moved ELSE outs) :
          /\ candleGenerator' = out.g
          /\ newCandle' = out.candle
          /\ step' = StepOf(out)
  /\ quiet' = quiet - 1
  /\ manualInput' \in (IF quiet = 1 THEN ManualInputsAfterQuiet ELSE {NoManual})
  /\ now' = now + DEFAULT_AUTO_INTERVAL
  /\ UNCHANGED <<generated, missedReads, eventCalls, svcVars, apiVars>>

\* A call with every draw free
FreeCandle ==
  /\ quiet = 0
  /\ generated < MaxFreeCalls
  /\ CallGenerator

RegimeNext == QuietCandle \/ FreeCandle \/ ExpireControl

SpecRegime == RegimeInit /\ [][RegimeNext]_vars

\* ------------------------------------------------------------------------
\* The TradingService: start, stop, the two timers and the candle close.
\* The clock moves in steps of one second (the period of the live-tick
\* timer).  A timer fires within the clock step it is due in, the awaits of
\* a call take at most MaxAwait steps in all; each await resolves in one
\* action, with the work that follows it up to the next await.
\* ------------------------------------------------------------------------

\* setInterval(..., 1000) of startPriceStreaming
PRICE_STREAM_INTERVAL == 1000

\* Minutes of clock per run
MaxMinutes == 3

\* Clock steps the awaits of one call can take in all
MaxAwait == 1

\* start() and stop() calls per run that take effect
MaxStarts == 1

MaxStops == 1

\* generateAndStoreCandle calls in flight at once
MaxInflight == 1

\* The process boots at most this many clock steps before a minute boundary
MaxBootOffset == 1

\* The values of AUTO_INTERVAL_MS: the default (one minute) and 90 seconds
AutoIntervals ==
  {DEFAULT_AUTO_INTERVAL, DEFAULT_AUTO_INTERVAL + DEFAULT_AUTO_INTERVAL \div 2}

\* The draw of a live tick's fluctuation and volume
TickDraws == {RandomMin}

RemoveAt(s, i) == SubSeq(s, 1, i - 1) \o SubSeq(s, i + 1, Len(s))

\* afterStop once these have been published or fired
Published(kinds) == IF stopped THEN afterStop \cup kinds ELSE afterStop

ServiceInit ==
  /\ now \in {DEFAULT_AUTO_INTERVAL - k * PRICE_STREAM_INTERVAL : k \in 0..MaxBootOffset}
  /\ candleGenerator = NewCandleGenerator(now)
  /\ newCandle = NoCandle
  /\ step = NoStep
  /\ generated = 0
  /\ manualInput = NoManual
  /\ missedReads = 0
  /\ quiet = 0
  /\ eventCalls = <<>>
  /\ ServiceFresh
  /\ interval \in AutoIntervals
  /\ candles = <<>>
  /\ ApiFresh

\* start(), up to its await of loadConfiguration
StartCalled ==
  /\ ~isRunning
  /\ isRunning' = TRUE
  /\ loading' = Append(loading, [since |-> now])
  /\ starts' = starts + 1
  /\ stopped' = FALSE
  /\ session' = 0
  /\ UNCHANGED <<genVars, interval, autoInterval, priceStreamInterval, timers,
                 timersCreated, closing, candles, live, stops, afterStop, ioVars, apiVars>>

Start == starts < MaxStarts /\ StartCalled

\* The trading_config rows, as the schema inserts them
ConfiguredParameters ==
  [basePrice |-> DEFAULT_BASE_PRICE, volatility |-> DEFAULT_VOLATILITY,
   trendStrength |-> DEFAULT_TREND_STRENGTH, volumeBase |-> DEFAULT_VOLUME_BASE]

updateParameters(g, params) ==
  [g EXCEPT !.basePrice = params.basePrice,
            !.volatility = params.volatility,
            !.trendStrength = params.trendStrength,
            !.volumeBase = params.volumeBase]

\* loadConfiguration resolves in a start() call, which goes on with
\* startAutoMode and startPriceStreaming: both timers are created and their
\* handles stored, whatever isRunning is by now
LoadConfiguration ==
  \E i \in 1..Len(loading) :
    /\ candleGenerator' = updateParameters(candleGenerator, ConfiguredParameters)
    /\ timers' = timers \cup
                   {[id |-> timersCreated + 1, kind |-> "close", due |-> now + interval],
                    [id |-> timersCreated + 2, kind |-> "tick",
                     due |-> now + PRICE_STREAM_INTERVAL]}
    /\ autoInterval' = timersCreated + 1
    /\ priceStreamInterval' = timersCreated + 2
    /\ timersCreated' = timersCreated + 2
    /\ loading' = RemoveAt(loading, i)
    /\ UNCHANGED <<now, newCandle, step, generated, manualInput, missedReads, quiet,
                   eventCalls,
                   interval, isRunning, closing, candles, live, starts, stops,
                   stopped, afterStop, session, ioVars, apiVars>>

\* stop(): it has no await, and returns in the same step
StopCalled ==
  /\ isRunning
  /\ isRunning' = FALSE
  /\ timers' = {t \in timers : t.id \notin {autoInterval, priceStreamInterval}}
  /\ autoInterval' = NoTimer
  /\ priceStreamInterval' = NoTimer
  /\ stops' = stops + 1
  /\ stopped' = TRUE
  /\ afterStop' = {}
  /\ session' = 0
  /\ UNCHANGED <<genVars, interval, timersCreated, loading, closing, candles, live,
                 starts, ioVars, apiVars>>

Stop == stops < MaxStops /\ StopCalled

\* The clock moves by one step, while something is pending, once the timers
\* due have fired and unless an await would take longer than the bound allows
Advance ==
  /\ now + PRICE_STREAM_INTERVAL <= MaxMinutes * DEFAULT_AUTO_INTERVAL
  /\ timers # {} \/ loading # <<>> \/ closing # <<>>
  /\ \A t \in timers : now < t.due
  /\ \A i \in 1..Len(loading) :
       now + PRICE_STREAM_INTERVAL <= loading[i].since + MaxAwait * PRICE_STREAM_INTERVAL
  /\ \A i \in 1..Len(closing) :
       now + PRICE_STREAM_INTERVAL <= closing[i].since + MaxAwait * PRICE_STREAM_INTERVAL
  /\ now' = now + PRICE_STREAM_INTERVAL
  /\ UNCHANGED <<candleGenerator, newCandle, step, generated, manualInput, missedReads,
                 quiet, eventCalls, svcVars, apiVars>>

\* A timer after it has fired at the instant t: setInterval re-arms it one
\* period after the firing
Rearmed(t, period) == [t EXCEPT !.due = now + period]

\* A generateAndStoreCandle call as it starts at the instant t: where it is,
\* its locals, and what it has done (insert attempts, whether storeCandle
\* and cacheCandle succeeded, whether it reset the live fields and broadcast
\* the candle, the status updateSystemStatus built)
NewCall(t) ==
  [pc |-> "getLastCandle", since |-> t, lastCandle |-> NoCandle, asked |-> t,
   candle |-> NoCandle, writes |-> 0, storeOk |-> TRUE, cacheOk |-> TRUE,
   reset |-> FALSE, broadcast |-> FALSE, isRunning |-> FALSE]

\* The close timer fires: generateAndStoreCandle is called and stops at its
\* await of getLastCandle
FireClose ==
  \E t \in timers :
    /\ t.kind = "close"
    /\ t.due <= now
    /\ Len(closing) < MaxInflight
    /\ timers' = (timers \ {t}) \cup {Rearmed(t, interval)}
    /\ closing' = Append(closing, NewCall(now))
    /\ UNCHANGED <<genVars, interval, isRunning, autoInterval, priceStreamInterval,
                   timersCreated, loading, candles, live, starts, stops, stopped,
                   afterStop, session, ioVars, apiVars>>

\* getLastCandle's query (order by timestamp descending, limit 1): the rows
\* it can return, NoCandle when there is none
getLastCandle(rows) ==
  IF rows = <<>> THEN {NoCandle}
  ELSE {rows[k] : k \in {i \in 1..Len(rows) :
                           \A j \in 1..Len(rows) : rows[j].timestamp <= rows[i].timestamp}}

\* The rows selected with gte in place of gt
ActiveRowsUntilExpiry(rows, t) ==
  {i \in 1..Len(rows) : rows[i].is_active /\ rows[i].expires_at >= t}

\* The rows getActiveManualControl's query selects among at the instant t
ActiveRows(rows, t) ==
  {i \in 1..Len(rows) : rows[i].is_active /\ rows[i].expires_at > t}

\* The row created_at puts first in descending order.  Rows created within
\* one clock step keep the order of their inserts (created_at has
\* microsecond resolution), which id records
CreatedAfter(a, b) ==
  \/ a.created_at > b.created_at
  \/ a.created_at = b.created_at /\ a.id >= b.id

\* getActiveManualControl's query at the instant t: the index of the row it
\* returns, 0 for null
getActiveManualControl(rows, t) ==
  LET active == ActiveRows(rows, t)
  IN IF active = {} THEN 0
     ELSE CHOOSE i \in active : \A j \in active : CreatedAfter(rows[i], rows[j])

\* manualControl?.direction, ?.speed, ?.intensity, with generateCandle's
\* defaults for undefined
ManualOf(rows, i) ==
  IF i = 0 THEN NoManual
  ELSE [direction |-> rows[i].direction, speed |-> rows[i].speed,
        intensity |-> rows[i].intensity]

\* The draws of the wicks and the volume all at their least
LeastDraws == [mult |-> RandomMin, high |-> RandomMin, low |-> RandomMin, vol |-> RandomMin]

\* The results of generateCandle the service runs go on with: the draws of
\* an auto-mode call are all 0.5, those of a manual call all at their least
ServiceResults(outs) ==
  {out \in outs : (out.kind = "manual" /\ out.draws = LeastDraws) \/ QuietResult(out)}

\* getLastCandle resolves (with a row, or null on a query error), and
\* getActiveManualControl is called
LastCandleRead ==
  \E i \in 1..Len(closing) :
    /\ closing[i].pc = "getLastCandle"
    /\ \E failed \in {b \in BOOLEAN : b => missedReads < MaxMissedReads} :
         /\ \E c \in (IF failed THEN {NoCandle} ELSE getLastCandle(candles)) :
              closing' = [closing EXCEPT ![i] = [@ EXCEPT !.pc = "getActiveManualControl",
                                                          !.lastCandle = c,
                                                          !.asked = now]]
         /\ missedReads' = IF failed THEN missedReads + 1 ELSE missedReads
    /\ UNCHANGED <<now, candleGenerator, newCandle, step, generated, manualInput, quiet,
                   eventCalls,
                   interval, isRunning, autoInterval, priceStreamInterval, timers,
                   timersCreated, loading, candles, live, starts, stops, stopped,
                   afterStop, session, ioVars, apiVars>>

\* getActiveManualControl resolves; generateCandle is called, and then
\* storeCandle
CandleGenerated ==
  \E i \in 1..Len(closing) :
    /\ closing[i].pc = "getActiveManualControl"
    /\ LET manual == ManualOf(controls, getActiveManualControl(controls, closing[i].asked))
       IN \E out \in ServiceResults(generateCandle(candleGenerator, closing[i].lastCandle,
                                                   manual, now)) :
            /\ candleGenerator' = out.g
            /\ newCandle' = out.candle
            /\ step' = StepOf(out)
            /\ eventCalls' = EventCallsAfter(out)
            /\ closing' = [closing EXCEPT ![i] = [@ EXCEPT !.pc = "storeCandle",
                                                           !.candle = out.candle]]
    /\ generated' = generated + 1
    /\ session' = session + 1
    /\ UNCHANGED <<now, manualInput, missedReads, quiet, interval, isRunning, autoInterval,
                   priceStreamInterval, timers, timersCreated, loading, candles, live,
                   starts, stops, stopped, afterStop, ioVars, apiVars>>

\* Writes that fail, per run
MaxFailedWrites == 1

\* Whether a write can succeed or fail now
WriteOutcomes == {ok \in BOOLEAN : ~ok => failedWrites < MaxFailedWrites}

\* The call if storeCandle threw what the insert returned
AfterStoreRethrown(call, ok) ==
  [call EXCEPT !.pc = IF ok THEN "cacheCandle" ELSE "thrown",
               !.writes = @ + 1, !.storeOk = ok]

\* The call after storeCandle: the insert's error is logged, in both of
\* storeCandle's branches, and the call goes on to cacheCandle
AfterStore(call, ok) ==
  [call EXCEPT !.pc = "cacheCandle", !.writes = @ + 1, !.storeOk = ok]

\* storeCandle resolves, the row inserted unless the insert failed;
\* cacheCandle is called
CandleStored ==
  \E i \in 1..Len(closing) :
    /\ closing[i].pc = "storeCandle"
    /\ \E ok \in WriteOutcomes :
         /\ candles' = IF ok THEN Append(candles, closing[i].candle) ELSE candles
         /\ closing' = [closing EXCEPT ![i] = AfterStore(@, ok)]
         /\ failedWrites' = IF ok THEN failedWrites ELSE failedWrites + 1
         /\ afterStop' = IF ok THEN Published({"store"}) ELSE afterStop
    /\ UNCHANGED <<genVars, interval, isRunning, autoInterval, priceStreamInterval, timers,
                   timersCreated, loading, live, starts, stops, stopped, session,
                   cachedStatus, liveSnapshot, apiVars>>

\* The live fields with the price alone taken from the candle
LiveResetPriceOnly(candle, l) == [l EXCEPT !.currentPrice = candle.close]

\* The live fields after the reset of generateAndStoreCandle.  The six
\* assignments follow one another with no await between them
LiveReset(candle, l) ==
  [currentPrice |-> candle.close,
   currentCandleOpen |-> candle.open,
   currentCandleHigh |-> candle.high,
   currentCandleLow |-> candle.low,
   currentCandleVolume |-> candle.volume,
   currentCandleStartTime |-> candle.timestamp]

\* cacheCandle resolves (a Redis error is logged); currentPrice and the live
\* fields are reset, the candle is broadcast and updateSystemStatus is
\* called, which reads isRunning for the status it builds
CandleCached ==
  \E i \in 1..Len(closing) :
    /\ closing[i].pc = "cacheCandle"
    /\ live' = LiveReset(closing[i].candle, live)
    /\ \E ok \in WriteOutcomes :
         /\ closing' = [closing EXCEPT ![i] = [@ EXCEPT !.pc = "updateSystemStatus",
                                                        !.cacheOk = ok,
                                                        !.reset = TRUE,
                                                        !.broadcast = TRUE,
                                                        !.isRunning = isRunning]]
         /\ failedWrites' = IF ok THEN failedWrites ELSE failedWrites + 1
         /\ afterStop' = Published(IF ok THEN {"cache", "candle"} ELSE {"candle"})
    /\ sockets' = broadcastCandle(sockets, SYMBOL)
    /\ UNCHANGED <<genVars, interval, isRunning, autoInterval, priceStreamInterval, timers,
                   timersCreated, loading, candles, starts, stops, stopped, session,
                   cachedStatus, liveSnapshot, controls, activeControl, history, posted,
                   status>>

\* updateSystemStatus resolves, the status cached and broadcast;
\* generateAndStoreCandle returns
StatusUpdated ==
  \E i \in 1..Len(closing) :
    /\ closing[i].pc = "updateSystemStatus"
    /\ closing' = RemoveAt(closing, i)
    /\ cachedStatus' = [set |-> TRUE, isRunning |-> closing[i].isRunning,
                        lastCandleTime |-> closing[i].candle.timestamp]
    /\ afterStop' = Published({"status"})
    /\ UNCHANGED <<genVars, interval, isRunning, autoInterval, priceStreamInterval, timers,
                   timersCreated, loading, candles, live, starts, stops, stopped, session,
                   failedWrites, liveSnapshot, apiVars>>

\* updateLiveOHLC at the instant t, with the draw rv of the volume increment
updateLiveOHLC(l, t, rv) ==
  LET candleStartTime == (t \div DEFAULT_AUTO_INTERVAL) * DEFAULT_AUTO_INTERVAL
      l1 == IF candleStartTime # l.currentCandleStartTime
            THEN [l EXCEPT !.currentCandleStartTime = candleStartTime,
                           !.currentCandleOpen = l.currentPrice,
                           !.currentCandleHigh = l.currentPrice,
                           !.currentCandleLow = l.currentPrice,
                           !.currentCandleVolume = 0]
            ELSE l
  IN [l1 EXCEPT !.currentCandleHigh = Max2(@, l.currentPrice),
                !.currentCandleLow = Min2(@, l.currentPrice),
                !.currentCandleVolume = @ + 5 * VolumePerUnit + MulF(10 * VolumePerUnit, rv)]

\* The payload updateLiveOHLC gives to broadcastLiveOHLC at the instant t
LiveOHLC(l, t) ==
  [timestamp |-> t, open |-> l.currentCandleOpen, high |-> l.currentCandleHigh,
   low |-> l.currentCandleLow, close |-> l.currentPrice,
   volume |-> l.currentCandleVolume]

\* updateRealTimePrice at the instant t, with the draws r (fluctuation) and rv
updateRealTimePrice(l, t, r, rv) ==
  LET basePrice == l.currentPrice
      fluctuation == MulF(basePrice, MulF(60, r) - 30)
      newPrice == basePrice + fluctuation
  IN updateLiveOHLC([l EXCEPT !.currentPrice = Max2(newPrice, MIN_PRICE)], t, rv)

\* The live-tick timer firing, with the new price also written to the
\* generator's lastPrice
FireTickMovingLastPrice ==
  \E t \in timers :
    /\ t.kind = "tick"
    /\ t.due <= now
    /\ timers' = (timers \ {t}) \cup {Rearmed(t, PRICE_STREAM_INTERVAL)}
    /\ \E r \in TickDraws : live' = updateRealTimePrice(live, now, r, r)
    /\ liveSnapshot' = LiveOHLC(live', now)
    /\ afterStop' = Published({"tick"})
    /\ candleGenerator' = [candleGenerator EXCEPT !.lastPrice = live'.currentPrice]
    /\ UNCHANGED <<now, newCandle, step, generated, manualInput, missedReads, quiet,
                   eventCalls, interval, isRunning, autoInterval, priceStreamInterval,
                   timersCreated, loading, closing, candles, starts, stops, stopped,
                   session, failedWrites, cachedStatus, apiVars>>

\* The live-tick timer fires: the price moves, the live OHLC is updated, and
\* both are broadcast and the price cached
FireTick ==
  \E t \in timers :
    /\ t.kind = "tick"
    /\ t.due <= now
    /\ timers' = (timers \ {t}) \cup {Rearmed(t, PRICE_STREAM_INTERVAL)}
    /\ \E r \in TickDraws : live' = updateRealTimePrice(live, now, r, r)
    /\ liveSnapshot' = LiveOHLC(live', now)
    /\ afterStop' = Published({"tick"})
    /\ UNCHANGED <<genVars, interval, isRunning, autoInterval, priceStreamInterval,
                   timersCreated, loading, closing, candles, starts, stops, stopped,
                   session, failedWrites, cachedStatus, apiVars>>

\* getSystemStatus (one call per run): the status cached under
\* SYSTEM_STATUS when there is one; otherwise a status built from the last
\* candle and isRunning, which it caches
SystemStatusAsked ==
  /\ status = NoStatusCall
  /\ IF cachedStatus.set
     THEN /\ status' = [asked |-> TRUE, isRunning |-> cachedStatus.isRunning,
                        cached |-> TRUE, running |-> isRunning]
          /\ cachedStatus' = cachedStatus
     ELSE /\ status' = [asked |-> TRUE, isRunning |-> isRunning,
                        cached |-> FALSE, running |-> isRunning]
          /\ \E c \in getLastCandle(candles) :
               cachedStatus' = [set |-> TRUE, isRunning |-> isRunning,
                                lastCandleTime |-> c.timestamp]
  /\ UNCHANGED <<genVars, interval, isRunning, autoInterval, priceStreamInterval, timers,
                 timersCreated, loading, closing, candles, live, starts, stops, stopped,
                 afterStop, session, failedWrites, liveSnapshot, controls, activeControl,
                 history, posted, sockets>>

ServiceNext ==
  \/ Start
  \/ LoadConfiguration
  \/ Stop
  \/ Advance
  \/ FireClose
  \/ LastCandleRead
  \/ CandleGenerated
  \/ CandleStored
  \/ CandleCached
  \/ StatusUpdated
  \/ FireTick

SpecService == ServiceInit /\ [][ServiceNext]_vars

\* ------------------------------------------------------------------------
\* Manual controls: createManualControl and getActiveManualControl over the
\* manual_control table, as the clock moves
\* ------------------------------------------------------------------------

\* Rows per run
MaxControls == 2

\* Clock steps per run
MaxControlSteps == 3

\* The duration_seconds of the controls created, in seconds
MaxDuration == 2

\* duration_seconds >= 10 AND duration_seconds <= 3600 of check_manual_limits
MinDurationSeconds == 10

MaxDurationSeconds == 3600

\* The controls the route passes to createManualControl (is_active: true)
ControlRequests ==
  {[direction |-> d, speed |-> 200, intensity |-> 15000, duration_seconds |-> n,
    is_active |-> TRUE] : d \in {"up", "down"}, n \in 0..MaxDuration}

\* The row createManualControl inserts at the instant t: expires_at is
\* Date.now() + duration_seconds * 1000, created_at the database's NOW(),
\* id the next serial
ControlRow(rows, control, t) ==
  [id |-> Len(rows) + 1,
   direction |-> control.direction,
   speed |-> control.speed,
   intensity |-> control.intensity,
   duration_seconds |-> control.duration_seconds,
   is_active |-> control.is_active,
   created_at |-> t,
   expires_at |-> t + control.duration_seconds * 1000]

ControlInit ==
  /\ now = DEFAULT_AUTO_INTERVAL
  /\ candleGenerator = NewCandleGenerator(now)
  /\ newCandle = NoCandle
  /\ step = NoStep
  /\ generated = 0
  /\ manualInput = NoManual
  /\ missedReads = 0
  /\ quiet = 0
  /\ eventCalls = <<>>
  /\ ServiceFresh
  /\ interval = DEFAULT_AUTO_INTERVAL
  /\ candles = <<>>
  /\ ApiFresh

\* createManualControl: the row is inserted (then cached and broadcast)
CreateManualControl ==
  /\ Len(controls) < MaxControls
  /\ \E control \in ControlRequests :
       controls' = Append(controls, ControlRow(controls, control, now))
  /\ UNCHANGED <<genVars, svcVars, activeControl, history, posted, status, sockets>>

\* The directions the route lets through
Directions == {"up", "down", "neutral"}

\* The route lets the request through to createManualControl: direction in
\* the set, speed within [0, 1], intensity within [0, 10].  It does not
\* look at duration_seconds
RouteAccepts(request) ==
  /\ request.direction \in Directions
  /\ ~(request.speed < 0 \/ request.speed > ONE)
  /\ ~(request.intensity < 0 \/ request.intensity > 10 * ONE)

\* POST /manual-control with one of the requests: 400 when the route
\* refuses it; otherwise createManualControl inserts the row (200), or
\* throws when the insert fails (500)
PostManualControl(requests) ==
  /\ \E request \in requests :
       IF ~RouteAccepts(request)
       THEN /\ posted' = [request |-> request, code |-> 400, created |-> 0]
            /\ controls' = controls
       ELSE \E ok \in BOOLEAN :
              LET row == ControlRow(controls,
                                    [direction |-> request.direction,
                                     speed |-> request.speed,
                                     intensity |-> request.intensity,
                                     duration_seconds |-> request.duration_seconds,
                                     is_active |-> TRUE],
                                    now)
              IN /\ controls' = IF ok THEN Append(controls, row) ELSE controls
                 /\ posted' = [request |-> request,
                               code |-> IF ok THEN 200 ELSE 500,
                               created |-> IF ok THEN row.id ELSE 0]
  /\ UNCHANGED <<genVars, svcVars, activeControl, history, status, sockets>>

\* The bodies posted: the controls of ControlRequests and one that lasts
\* MinDurationSeconds, and bodies with a direction outside the set, a speed
\* of 2 or an intensity of 11
PostRequests ==
  LET body(d, sp, in, n) ==
        [direction |-> d, speed |-> sp, intensity |-> in, duration_seconds |-> n]
  IN {body(d, 200, 15000, n) : d \in {"up", "down"},
                               n \in (0..MaxDuration) \cup {MinDurationSeconds}}
       \cup {body("sideways", 200, 15000, MinDurationSeconds),
             body("up", 2 * ONE, 15000, MinDurationSeconds),
             body("up", 200, 11 * ONE, MinDurationSeconds)}

\* One request per run: the route keeps no state
ManualControlPosted ==
  /\ posted = NoPost
  /\ Len(controls) < MaxControls
  /\ PostManualControl(PostRequests)

\* A getActiveManualControl call: the query's row, or null when the query
\* fails (an error other than "no rows", or an exception)
ActiveControlAsked ==
  /\ \E ok \in BOOLEAN :
       activeControl' = [asked |-> TRUE, at |-> now, rows |-> Len(controls), ok |-> ok,
                         row |-> IF ok THEN getActiveManualControl(controls, now) ELSE 0]
  /\ UNCHANGED <<genVars, svcVars, controls, history, posted, status, sockets>>

ControlClock ==
  /\ now + PRICE_STREAM_INTERVAL <=
       DEFAULT_AUTO_INTERVAL + MaxControlSteps * PRICE_STREAM_INTERVAL
  /\ now' = now + PRICE_STREAM_INTERVAL
  /\ UNCHANGED <<candleGenerator, newCandle, step, generated, manualInput, missedReads,
                 quiet, eventCalls, svcVars, apiVars>>

ControlNext ==
  \/ CreateManualControl
  \/ ManualControlPosted
  \/ ActiveControlAsked
  \/ ControlClock

SpecControl == ControlInit /\ [][ControlNext]_vars

\* ------------------------------------------------------------------------
\* A session: the process boots over a candles table that is empty or holds
\* a candle of an earlier run, the service is started with a short candle
\* interval (AUTO_INTERVAL_MS of three seconds) and controls are posted
\* while it runs
\* ------------------------------------------------------------------------

\* Clock steps per run
MaxSessionSteps == 6

\* Controls posted per run
MaxSessionControls == 1

\* AUTO_INTERVAL_MS, as startAutoMode parses it
SessionInterval == 3 * PRICE_STREAM_INTERVAL

\* A candle an earlier run stored: it closed at 10.50
PersistedCandle ==
  [timestamp |-> 0, open |-> 104 * TicksPerCent * 10, high |-> 106 * TicksPerCent * 10,
   low |-> 103 * TicksPerCent * 10, close |-> 105 * TicksPerCent * 10,
   volume |-> DEFAULT_VOLUME_BASE, mode |-> "auto"]

\* The bodies posted during a session: up, for one second or for
\* MinDurationSeconds
SessionRequests ==
  {[direction |-> "up", speed |-> 200, intensity |-> 15000, duration_seconds |-> n]
     : n \in {1, MinDurationSeconds}}

SessionInit ==
  /\ now = DEFAULT_AUTO_INTERVAL
  /\ candleGenerator = NewCandleGenerator(now)
  /\ newCandle = NoCandle
  /\ step = NoStep
  /\ generated = 0
  /\ manualInput = NoManual
  /\ missedReads = 0
  /\ quiet = 0
  /\ eventCalls = <<>>
  /\ ServiceFresh
  /\ interval = SessionInterval
  /\ candles \in {<<>>, <<PersistedCandle>>}
  /\ ApiFresh

SessionAdvance ==
  /\ now + PRICE_STREAM_INTERVAL <=
       DEFAULT_AUTO_INTERVAL + MaxSessionSteps * PRICE_STREAM_INTERVAL
  /\ Advance

SessionControlPosted ==
  /\ posted = NoPost
  /\ Len(controls) < MaxSessionControls
  /\ PostManualControl(SessionRequests)

SessionNext ==
  \/ Start
  \/ LoadConfiguration
  \/ SessionAdvance
  \/ FireClose
  \/ LastCandleRead
  \/ CandleGenerated
  \/ CandleStored
  \/ CandleCached
  \/ StatusUpdated
  \/ FireTick
  \/ SessionControlPosted

SpecSession == SessionInit /\ [][SessionNext]_vars

\* ------------------------------------------------------------------------
\* The status: the service started and stopped, with the same short candle
\* interval, and getSystemStatus called while it runs or after it stopped
\* ------------------------------------------------------------------------

StatusInit ==
  /\ SessionInit
  /\ candles = <<>>

StatusNext ==
  \/ Start
  \/ LoadConfiguration
  \/ Stop
  \/ SessionAdvance
  \/ FireClose
  \/ LastCandleRead
  \/ CandleGenerated
  \/ CandleStored
  \/ CandleCached
  \/ StatusUpdated
  \/ FireTick
  \/ SystemStatusAsked

SpecStatus == StatusInit /\ [][StatusNext]_vars

\* ------------------------------------------------------------------------
\* The generator configured: generateCandle called after updateParameters
\* has set a volumeBase read from the trading_config table
\* ------------------------------------------------------------------------

\* generateCandle calls per run
MaxConfiguredSteps == 1

\* The values of volume_base: the default (100), 1 and 0.01
VolumeBases == {DEFAULT_VOLUME_BASE, VolumePerUnit, VolumePerCent}

ConfiguredInit ==
  /\ now = DEFAULT_AUTO_INTERVAL
  /\ \E vb \in VolumeBases :
       candleGenerator = updateParameters(NewCandleGenerator(now),
                                          [ConfiguredParameters EXCEPT !.volumeBase = vb])
  /\ newCandle \in CandlesAtStart
  /\ step = NoStep
  /\ generated = 0
  /\ manualInput \in ManualInputs
  /\ missedReads = 0
  /\ quiet = 0
  /\ eventCalls = <<>>
  /\ ServiceFresh
  /\ interval = DEFAULT_AUTO_INTERVAL
  /\ candles = IF newCandle = NoCandle THEN <<>> ELSE <<newCandle>>
  /\ ApiFresh

ConfiguredCandle ==
  /\ generated < MaxConfiguredSteps
  /\ CallGenerator

ConfiguredNext == ConfiguredCandle \/ ExpireControl

SpecConfigured == ConfiguredInit /\ [][ConfiguredNext]_vars

\* ------------------------------------------------------------------------
\* History: GET /history over the candles table
\* ------------------------------------------------------------------------

\* Minutes the stored candles are taken from
MaxStored == 3

RESOLUTION == "1"

\* The candle stored for the minute k
StoredCandle(k) ==
  MakeCandle(k * DEFAULT_AUTO_INTERVAL, DEFAULT_BASE_PRICE, DEFAULT_BASE_PRICE,
             DEFAULT_BASE_PRICE, DEFAULT_BASE_PRICE, DEFAULT_VOLUME_BASE, NoManual)

\* The table holding the candles of the minutes in S, oldest first
RECURSIVE StoredCandles(_)
StoredCandles(S) ==
  IF S = {} THEN <<>>
  ELSE LET k == CHOOSE m \in S : \A n \in S : n <= m
       IN Append(StoredCandles(S \ {k}), StoredCandle(k))

\* order('timestamp', { ascending: true })
RECURSIVE OrderByTimestamp(_)
OrderByTimestamp(rows) ==
  IF rows = <<>> THEN <<>>
  ELSE LET k == CHOOSE i \in 1..Len(rows) :
                  \A j \in 1..Len(rows) : rows[i].timestamp <= rows[j].timestamp
       IN <<rows[k]>> \o OrderByTimestamp(RemoveAt(rows, k))

\* limit(n)
Limit(rows, n) == SubSeq(rows, 1, Min2(n, Len(rows)))

\* eq('symbol', symbol).eq('resolution', resolution): every row of the table
\* has the symbol SYMBOL and the resolution RESOLUTION
MatchingRows(rows, symbol, resolution) ==
  IF symbol = SYMBOL /\ resolution = RESOLUTION THEN rows ELSE <<>>

InRange(c, fromMs, toMs) == c.timestamp >= fromMs /\ c.timestamp <= toMs

\* getHistoricalCandles
getHistoricalCandles(rows, symbol, resolution, from, to, limit) ==
  LET fromMs == from * 1000
      toMs == to * 1000
      matching == OrderByTimestamp(MatchingRows(rows, symbol, resolution))
      data == Limit(SelectSeq(matching, LAMBDA c : InRange(c, fromMs, toMs)), limit)
      fallbackData == Limit(matching, limit)
  IN IF data = <<>> THEN fallbackData ELSE data

\* The response of GET /history to a request with from and to
HistoryResponse(rows, request) ==
  LET limit == Min2(request.countback, 1000)
      found == getHistoricalCandles(rows, request.symbol, request.resolution,
                                    request.from, request.to, limit)
  IN IF Len(found) = 0
     THEN [request |-> request, s |-> "no_data", t |-> <<>>, c |-> <<>>]
     ELSE [request |-> request, s |-> "ok",
           t |-> [i \in 1..Len(found) |-> found[i].timestamp \div 1000],
           c |-> [i \in 1..Len(found) |-> found[i].close]]

\* The requests: from and to on minute boundaries, in seconds
HistoryRequests ==
  [symbol : {SYMBOL, "BTCUSD"}, resolution : {RESOLUTION},
   from : {k * (DEFAULT_AUTO_INTERVAL \div 1000) : k \in 0..(MaxStored + 1)},
   to : {k * (DEFAULT_AUTO_INTERVAL \div 1000) : k \in 0..(MaxStored + 1)},
   countback : {1, 1000}]

HistoryInit ==
  /\ now = (MaxStored + 1) * DEFAULT_AUTO_INTERVAL
  /\ candleGenerator = NewCandleGenerator(now)
  /\ newCandle = NoCandle
  /\ step = NoStep
  /\ generated = 0
  /\ manualInput = NoManual
  /\ missedReads = 0
  /\ quiet = 0
  /\ eventCalls = <<>>
  /\ ServiceFresh
  /\ interval = DEFAULT_AUTO_INTERVAL
  /\ candles \in {StoredCandles(S) : S \in SUBSET (1..MaxStored)}
  /\ ApiFresh

\* GET /history (one request per run: the route keeps no state)
HistoryRequested ==
  /\ history = NoHistory
  /\ \E request \in HistoryRequests : history' = HistoryResponse(candles, request)
  /\ UNCHANGED <<genVars, svcVars, controls, activeControl, posted, status, sockets>>

HistoryNext == HistoryRequested

SpecHistory == HistoryInit /\ [][HistoryNext]_vars

\* ------------------------------------------------------------------------
\* Claims about the generator
\* ------------------------------------------------------------------------

\* C1: every candle generateCandle returns has low <= min(open, close),
\* max(open, close) <= high and close > 0.
C1_CandleOrdered ==
  generated > 0 =>
    /\ newCandle.low <= Min2(newCandle.open, newCandle.close)
    /\ Max2(newCandle.open, newCandle.close) <= newCandle.high
    /\ newCandle.close > 0

\* C1 witness: a candle whose close the support/resistance rejection put
\* below the price floor, where the low wick is clamped to the floor
C1_Witness ==
  /\ generated > 0
  /\ step.close < MIN_PRICE
  /\ step.low = MIN_PRICE
  /\ newCandle.close = newCandle.low

\* C1 witness of the ordinary case: a candle with both wicks
C1_WitnessWicks ==
  /\ generated > 0
  /\ newCandle.low < Min2(newCandle.open, newCandle.close)
  /\ Max2(newCandle.open, newCandle.close) < newCandle.high

\* C2: on every step |close - previousClose| / previousClose is at most the
\* cap the circuit breakers applied on that step.
C2_MoveWithinCap ==
  generated > 0 =>
    Abs(newCandle.close - step.previousClose) * ONE <= step.maxChange * step.previousClose

\* C7: from basePrice 10.00 with the manual control {up, 0.02, 1.5}, the next
\* candle has close >= open * (1 + 0.02 * 1.5 * 0.5) and mode manual.
C7_ManualUpMove ==
  (/\ generated = 1
   /\ step.previousClose = DEFAULT_BASE_PRICE
   /\ step.manual = [direction |-> "up", speed |-> 200, intensity |-> 15000])
  => /\ newCandle.close * ONE >= newCandle.open * (ONE + 150)
     /\ newCandle.mode = "manual"

\* The level of a sequence of levels that has this price (a set of 0 or 1)
LevelsAt(levels, price) == {i \in 1..Len(levels) : levels[i].price = price}

\* C9 (strength): every level's strength is within [0, 1]
StrengthInRange ==
  \A i \in 1..Len(candleGenerator.supportResistanceLevels) :
    /\ candleGenerator.supportResistanceLevels[i].strength >= 0
    /\ candleGenerator.supportResistanceLevels[i].strength <= ONE

\* C9 (touches): over a step, a level that stays in the set never loses
\* touches, and one the step touched (magnet snap, or merge of a
\* near-duplicate) has strictly more
TouchesGrow ==
  generated' # generated =>
  \A i \in 1..Len(candleGenerator.supportResistanceLevels) :
    \A j \in LevelsAt(candleGenerator'.supportResistanceLevels,
                      candleGenerator.supportResistanceLevels[i].price) :
      LET before == candleGenerator.supportResistanceLevels[i]
          after == candleGenerator'.supportResistanceLevels[j]
      IN /\ after.touches >= before.touches
         /\ before.price \in (step'.touched \cup step'.merged)
              => after.touches > before.touches

\* C9: for every level at every time, strength stays within [0, 1]; a
\* level's touches never decrease and strictly increase each time it is
\* touched.
C9_LevelsStrengthAndTouches == []StrengthInRange /\ [][TouchesGrow]_vars

\* C9 witness: a level that was weakened by a breakout, then snapped to by
\* the magnet and merged into
C9_Witness ==
  /\ generated > 1
  /\ step.touched # {}
  /\ step.merged # {}
  /\ \E i \in 1..Len(candleGenerator.supportResistanceLevels) :
       /\ candleGenerator.supportResistanceLevels[i].strength < ONE
       /\ candleGenerator.supportResistanceLevels[i].touches > 2

\* The edges of the regime cycle
RegimeEdges ==
  {<<"accumulation", "markup">>, <<"markup", "distribution">>,
   <<"distribution", "markdown">>, <<"markdown", "accumulation">>}

\* C8: on every step, the generator's market regime either stays what it was
\* or moves along one of the edges accumulation -> markup, markup ->
\* distribution, distribution -> markdown, markdown -> accumulation.
C8_RegimeFollowsCycle ==
  [][candleGenerator'.marketRegime # candleGenerator.marketRegime
       => <<candleGenerator.marketRegime, candleGenerator'.marketRegime>> \in RegimeEdges]_vars

\* A call with free draws has closed the cycle: it found the generator in
\* markdown, more than 40 candles into the regime, and left it in accumulation
C8_Witness ==
  /\ generated > 0
  /\ step.regime = "markdown"
  /\ candleGenerator.marketRegime = "accumulation"
  /\ candleGenerator.regimeCandleCount = 0

\* ------------------------------------------------------------------------
\* Claims about the TradingService
\* ------------------------------------------------------------------------

\* One minute, in milliseconds
MinuteMs == 60 * 1000

\* The candles generated so far: the rows stored and the last one returned
FinalizedCandles ==
  {candles[i] : i \in 1..Len(candles)} \cup (IF generated > 0 THEN {newCandle} ELSE {})

\* C3 (as the code has it): every finalized candle's timestamp is an exact
\* multiple of one minute (60000 ms), whatever the instant at which the close
\* callback runs and whatever interval the close timer was given.
C3_TimestampOnMinute ==
  \A c \in FinalizedCandles : c.timestamp % MinuteMs = 0

\* C3 (as stated): every finalized candle's timestamp is an exact multiple
\* of the candle interval, timestamp mod intervalMs = 0.
C3_TimestampOnInterval ==
  \A c \in FinalizedCandles : c.timestamp % interval = 0

\* A candle was generated by a close callback that ran off the minute
\* boundary, and was stored
C3_Witness ==
  /\ generated > 0
  /\ step.now % MinuteMs # 0
  /\ newCandle.timestamp < step.now
  /\ \E i \in 1..Len(candles) : candles[i] = newCandle

\* C4 (for the default interval of one minute): while the engine runs,
\* every candle finalized after another one of the same run has a timestamp
\* exactly intervalMs after it: no duplicate and no skipped interval.
C4_OneCandlePerInterval ==
  [][(/\ interval = DEFAULT_AUTO_INTERVAL
      /\ isRunning
      /\ session >= 1
      /\ generated' = generated + 1)
     => newCandle'.timestamp - newCandle.timestamp = interval]_vars

\* C5: once stop() has returned (and until start() is called again) no live
\* tick fires and nothing is published: no candle, price, live OHLC or
\* status broadcast, no cache or persistence write.
C5_NothingAfterStop == afterStop = {}

\* ------------------------------------------------------------------------
\* Claims about the history route and the manual controls
\* ------------------------------------------------------------------------

\* The stored candles of the request's symbol and resolution whose timestamp
\* lies in the request's range [from, to] (in seconds)
CandlesInRange(request) ==
  {i \in 1..Len(candles) :
     /\ request.symbol = SYMBOL
     /\ request.resolution = RESOLUTION
     /\ candles[i].timestamp >= request.from * 1000
     /\ candles[i].timestamp <= request.to * 1000}

\* C6: a history request whose range contains no stored candle of the
\* symbol and resolution is answered no_data with empty arrays, whatever
\* candles are stored outside the range.
C6_EmptyRangeIsNoData ==
  (history.s # NoValue /\ CandlesInRange(history.request) = {})
    => history.s = "no_data" /\ history.t = <<>> /\ history.c = <<>>

\* The control the statement designates at the instant t among the first n
\* rows: the last created one whose window [created_at, created_at +
\* duration_seconds) contains t; 0 when there is none
ControlInForce(n, t) ==
  LET inWindow == {i \in 1..n :
                     /\ controls[i].created_at <= t
                     /\ t < controls[i].created_at + controls[i].duration_seconds * 1000}
  IN IF inWindow = {} THEN 0 ELSE CHOOSE i \in inWindow : \A j \in inWindow : j <= i

ControlActiveDuring(a, b) ==
  \E i \in 1..Len(controls) :
    controls[i].is_active /\ controls[i].created_at <= b /\ controls[i].expires_at > a

\* A control created before the instant b whose window reaches past a
ControlActiveBefore(a, b) ==
  \E i \in 1..Len(controls) :
    controls[i].is_active /\ controls[i].created_at < b /\ controls[i].expires_at > a

\* C11: a finalized candle has mode manual if a manual control was active
\* at any point during the interval that ends with its generation, and mode
\* auto otherwise; a control that started and expired inside the interval
\* still makes the candle manual.
C11_ModeFollowsControls ==
  newCandle # NoCandle
    => /\ newCandle.mode \in {"manual", "auto"}
       /\ newCandle.mode = "manual" => ControlActiveDuring(step.now - interval, step.now)
       /\ newCandle.mode = "auto" => ~ControlActiveBefore(step.now - interval, step.now)

\* C13: the candles the engine generates are chained whether or not a read
\* or a write of a collaborator fails: each candle generated after the first
\* of a session opens at the close of the candle generated before it.
C13_OpenChainedToLastClose ==
  [][(generated' = generated + 1 /\ session >= 1) => newCandle'.open = newCandle.close]_vars

\* C16: from the first live tick after a control with direction up is
\* created, and while it is active, the live price the ticks publish follows
\* the control: it does not fall.
C16_TickFollowsControl ==
  [][(FireTick /\ getActiveManualControl(controls, now) # 0
        /\ controls[getActiveManualControl(controls, now)].direction = "up")
       => live'.currentPrice >= live.currentPrice]_vars

\* C17: the first live tick after the process has booted and the service
\* has started moves from the close of the last persisted candle, when
\* there is one, not from the default base price.
C17_FirstTickFromLastCandle ==
  [][(FireTick /\ live = NewLive(live.currentCandleStartTime) /\ candles # <<>>)
       => \E c \in getLastCandle(candles), r \in TickDraws :
            live' = updateRealTimePrice([live EXCEPT !.currentPrice = c.close], now, r, r)]_vars

\* ------------------------------------------------------------------------
\* Claims about the manual-control route
\* ------------------------------------------------------------------------

\* A request within the bounds: the route's for the direction, the speed
\* and the intensity, those of check_manual_limits for the duration
WithinLimits(request) ==
  /\ RouteAccepts(request)
  /\ request.duration_seconds >= MinDurationSeconds
  /\ request.duration_seconds <= MaxDurationSeconds

\* C12: a manual-control request whose direction is not up, down or neutral,
\* or whose speed, intensity or duration is outside the bounds, is answered
\* with an error and creates no control.
C12_InvalidRequestRejected ==
  (posted # NoPost /\ ~WithinLimits(posted.request))
    => posted.code # 200 /\ posted.created = 0

\* ------------------------------------------------------------------------
\* Claims about the candle close, its collaborators and the status
\* ------------------------------------------------------------------------

\* The live fields are those of the candle
LiveIsCandle(l, candle) ==
  /\ l.currentPrice = candle.close
  /\ l.currentCandleOpen = candle.open
  /\ l.currentCandleHigh = candle.high
  /\ l.currentCandleLow = candle.low
  /\ l.currentCandleVolume = candle.volume
  /\ l.currentCandleStartTime = candle.timestamp

\* A generateAndStoreCandle call in which storeCandle or cacheCandle failed
WriteFailed(call) == ~call.storeOk \/ ~call.cacheOk

\* C14: when storeCandle or cacheCandle fails during a candle close, the
\* call does not throw and does not insert again, and it still broadcasts
\* the candle, sets currentPrice to its close and resets the live fields.
C14_WriteFailureSwallowed ==
  /\ [](\A i \in 1..Len(closing) :
          WriteFailed(closing[i])
            => /\ closing[i].pc \in {"cacheCandle", "updateSystemStatus"}
               /\ closing[i].writes = 1
               /\ closing[i].pc = "updateSystemStatus" => closing[i].broadcast)
  /\ [][\A i \in 1..Len(closing) :
          (/\ closing[i].pc = "cacheCandle"
           /\ Len(closing') = Len(closing)
           /\ closing'[i].pc = "updateSystemStatus"
           /\ WriteFailed(closing'[i]))
            => LiveIsCandle(live', closing[i].candle) /\ closing'[i].broadcast]_vars

\* A close whose insert failed has gone on: the candle is broadcast and the
\* live fields are those of the candle
C14_Witness ==
  \E i \in 1..Len(closing) :
    /\ closing[i].pc = "updateSystemStatus"
    /\ ~closing[i].storeOk
    /\ closing[i].writes = 1
    /\ closing[i].broadcast
    /\ LiveIsCandle(live, closing[i].candle)
    /\ closing[i].candle \notin {candles[k] : k \in 1..Len(candles)}

\* C15: getSystemStatus reports whether the engine is running: its
\* isRunning field is TradingService.isRunning as the call returns.
C15_StatusReportsRunning ==
  status.asked => status.isRunning = status.running

\* C19: no live tick and no second close callback runs between the start
\* and the end of a generateAndStoreCandle call.
C19_CallbacksRunToCompletion ==
  [][(FireTick \/ FireClose) => closing = <<>>]_vars

\* C20: the reset of the live fields by the close callback is atomic with
\* respect to the live ticks: the live fields change by a whole tick or by
\* a whole reset (price, open, high, low, volume and start time together),
\* so a tick never starts from fields of which only some were reset.
C20_ResetAtomic ==
  [][live' # live
       => \/ \E r \in TickDraws : live' = updateRealTimePrice(live, now, r, r)
          \/ \E i \in 1..Len(closing) :
               closing[i].pc = "cacheCandle" /\ LiveIsCandle(live', closing[i].candle)]_vars

\* A tick has run after the reset of a close call still in flight: it
\* added its volume to the candle's, from the candle's open
C20_Witness ==
  \E i \in 1..Len(closing) :
    /\ closing[i].pc = "updateSystemStatus"
    /\ closing[i].reset
    /\ live.currentCandleOpen = closing[i].candle.open
    /\ live.currentCandleStartTime = closing[i].candle.timestamp
    /\ live.currentCandleVolume > closing[i].candle.volume
    /\ live.currentPrice # closing[i].candle.close

\* ------------------------------------------------------------------------
\* Claims about the volume
\* ------------------------------------------------------------------------

\* C18: the volume of every finalized candle is strictly positive, for
\* every price change and every regime, given a positive volumeBase.
C18_VolumePositive ==
  (generated > 0 /\ candleGenerator.volumeBase > 0) => newCandle.volume > 0

\* ------------------------------------------------------------------------
\* The life cycle: start() and stop() called again and again, a call of
\* either arriving while an earlier start() still awaits loadConfiguration
\* ------------------------------------------------------------------------

\* start() calls per run that find the service stopped
MaxLifecycleStarts == 2

\* stop() calls per run that find it running
MaxLifecycleStops == 2

\* Clock steps per run
MaxLifecycleSteps == 4

LifecycleInit == StatusInit

LifecycleStart == starts < MaxLifecycleStarts /\ StartCalled

LifecycleStop == stops < MaxLifecycleStops /\ StopCalled

LifecycleAdvance ==
  /\ now + PRICE_STREAM_INTERVAL <=
       DEFAULT_AUTO_INTERVAL + MaxLifecycleSteps * PRICE_STREAM_INTERVAL
  /\ Advance

LifecycleNext ==
  \/ LifecycleStart
  \/ LoadConfiguration
  \/ LifecycleStop
  \/ LifecycleAdvance
  \/ FireClose
  \/ LastCandleRead
  \/ CandleGenerated
  \/ CandleStored
  \/ CandleCached
  \/ StatusUpdated
  \/ FireTick

SpecLifecycle == LifecycleInit /\ [][LifecycleNext]_vars

\* The timers of one kind not cleared
TimersOf(kind) == {t \in timers : t.kind = kind}

\* C24: timers are active only while isRunning is true: whenever isRunning
\* is false and no start() is in progress, neither the candle-close timer
\* nor the live-tick timer is scheduled
C24_NoTimerWhileStopped == (~isRunning /\ loading = <<>>) => timers = {}

\* C25: at most one candle-close timer and at most one live-tick timer exist
\* at any time, and every timer that exists is the one autoInterval or
\* priceStreamInterval refers to, so that a later stop() can clear it
C25_OneTimerPairReferenced ==
  /\ Cardinality(TimersOf("close")) <= 1
  /\ Cardinality(TimersOf("tick")) <= 1
  /\ \A t \in TimersOf("close") : t.id = autoInterval
  /\ \A t \in TimersOf("tick") : t.id = priceStreamInterval

\* ------------------------------------------------------------------------
\* The chain of candles: the service started with a candle interval of one
\* second (AUTO_INTERVAL_MS=1000), so that several candles close within one
\* minute, and a control posted while it runs
\* ------------------------------------------------------------------------

\* Clock steps per run
MaxChainSteps == 3

\* AUTO_INTERVAL_MS, as startAutoMode parses it
ChainInterval == PRICE_STREAM_INTERVAL

ChainInit ==
  /\ now = DEFAULT_AUTO_INTERVAL
  /\ candleGenerator = NewCandleGenerator(now)
  /\ newCandle = NoCandle
  /\ step = NoStep
  /\ generated = 0
  /\ manualInput = NoManual
  /\ missedReads = 0
  /\ quiet = 0
  /\ eventCalls = <<>>
  /\ ServiceFresh
  /\ interval = ChainInterval
  /\ candles = <<>>
  /\ ApiFresh

ChainAdvance ==
  /\ now + PRICE_STREAM_INTERVAL <=
       DEFAULT_AUTO_INTERVAL + MaxChainSteps * PRICE_STREAM_INTERVAL
  /\ Advance

ChainNext ==
  \/ Start
  \/ LoadConfiguration
  \/ ChainAdvance
  \/ FireClose
  \/ LastCandleRead
  \/ CandleGenerated
  \/ CandleStored
  \/ CandleCached
  \/ StatusUpdated
  \/ FireTick
  \/ SessionControlPosted

SpecChain == ChainInit /\ [][ChainNext]_vars

\* A generateAndStoreCandle call returns from generateCandle in this step
CandleGeneratedNow == closing # <<>> /\ generated' = generated + 1

\* C26: for every pair of consecutively published candles, the open of the
\* later one is the close of the earlier one, provided every previous
\* candle was stored and read back successfully and close callbacks do not
\* overlap (no read and no write has failed, and one call runs at a time)
C26_ConsecutiveCandlesChained ==
  [][(/\ CandleGeneratedNow
      /\ generated >= 1
      /\ Len(closing) = 1
      /\ missedReads = 0
      /\ failedWrites = 0) => newCandle'.open = newCandle.close]_vars

\* ------------------------------------------------------------------------
\* The live candle state and the candle of a close
\* ------------------------------------------------------------------------

\* C21: the candle finalized at a close is the live candle state converted:
\* its open, high, low and close are the live open, running high, running
\* low and last price at the moment of the close
C21_CandleIsLiveState ==
  [][CandleGeneratedNow =>
       /\ newCandle'.open = live.currentCandleOpen
       /\ newCandle'.high = live.currentCandleHigh
       /\ newCandle'.low = live.currentCandleLow
       /\ newCandle'.close = live.currentPrice]_vars

\* The calls that reset the live fields in this step
ResettingNow ==
  {i \in 1..Len(closing) :
     /\ closing[i].pc = "cacheCandle"
     /\ Len(closing') = Len(closing)
     /\ closing'[i].pc = "updateSystemStatus"}

\* The live fields restarted from the price p at the start time the candle
\* gives them
RestartedFrom(p, l) ==
  /\ l.currentPrice = p
  /\ l.currentCandleOpen = p
  /\ l.currentCandleHigh = p
  /\ l.currentCandleLow = p
  /\ l.currentCandleVolume = 0

\* C22: right after a candle close, the live candle state is reset for the
\* new interval: its open is the closed candle's close, and the running
\* high, low and volume restart from that open
C22_LiveRestartsFromClose ==
  [][\A i \in ResettingNow : RestartedFrom(closing[i].candle.close, live')]_vars

\* The minute a live OHLC broadcast falls in
SnapshotMinute(snapshot) == snapshot.timestamp \div DEFAULT_AUTO_INTERVAL

\* A live OHLC broadcast is well formed
SnapshotOrdered ==
  liveSnapshot # NoSnapshot =>
    /\ liveSnapshot.low <= liveSnapshot.close
    /\ liveSnapshot.close <= liveSnapshot.high
    /\ liveSnapshot.low <= liveSnapshot.open
    /\ liveSnapshot.open <= liveSnapshot.high

\* From one live OHLC broadcast to the next of the same minute, the open
\* stays, the high and the volume do not fall and the low does not rise
SnapshotMonotone ==
  (/\ liveSnapshot # NoSnapshot
   /\ liveSnapshot' # liveSnapshot
   /\ SnapshotMinute(liveSnapshot') = SnapshotMinute(liveSnapshot)) =>
    /\ liveSnapshot'.open = liveSnapshot.open
    /\ liveSnapshot'.high >= liveSnapshot.high
    /\ liveSnapshot'.low <= liveSnapshot.low
    /\ liveSnapshot'.volume >= liveSnapshot.volume

\* C23: within one candle interval, over any interleaving of live ticks and
\* close callbacks, the open of the live snapshot stays constant, its high
\* and its volume never decrease and its low never increases; and in every
\* snapshot the low is at most the open and the close, and the high at least
C23_SnapshotMonotoneInInterval == []SnapshotOrdered /\ [][SnapshotMonotone]_vars

\* ------------------------------------------------------------------------
\* Random events and the Stability Governor
\* ------------------------------------------------------------------------

\* Calls per run
MaxEventSteps == 32

\* The controls in force as a run starts: none, or a neutral one
EventInputs == {m \in ManualInputs : m.direction \in {NoValue, "neutral"}}

EventsInit ==
  /\ now = DEFAULT_AUTO_INTERVAL
  /\ candleGenerator = NewCandleGenerator(now)
  /\ newCandle = NoCandle
  /\ step = NoStep
  /\ generated = 0
  /\ manualInput \in EventInputs
  /\ missedReads = 0
  /\ quiet = 0
  /\ eventCalls = <<>>
  /\ ServiceFresh
  /\ interval = DEFAULT_AUTO_INTERVAL
  /\ candles = <<>>
  /\ ApiFresh

\* A generateCandle call that triggers a random event, with the draws of
\* its wicks and volume at their least, or else a quiet call
EventfulCandle ==
  /\ generated < MaxEventSteps
  /\ \E out \in {o \in generateCandle(candleGenerator, newCandle, manualInput, now) :
                    QuietResult(o) \/ (o.kind = "event" /\ o.draws = LeastDraws)} :
       /\ candleGenerator' = out.g
       /\ newCandle' = out.candle
       /\ step' = StepOf(out)
       /\ eventCalls' = EventCallsAfter(out)
  /\ generated' = generated + 1
  /\ now' = now + DEFAULT_AUTO_INTERVAL
  /\ UNCHANGED <<manualInput, missedReads, quiet, svcVars, apiVars>>

EventsNext == EventfulCandle \/ ExpireControl

SpecEvents == EventsInit /\ [][EventsNext]_vars

\* ------------------------------------------------------------------------
\* The generator's momentum over two regime changes: quiet calls, among
\* which a bounded number of calls take a trending move (the only place
\* currentTrend grows), through accumulation, markup and distribution.
\* ------------------------------------------------------------------------

\* generateCandle calls per run
MaxMomentumCalls == 84

\* Calls per run that take a trending move
MaxTrendingCalls == 1

\* The calls of a run before this one are quiet
FirstTrendingCall == 72

MomentumInit ==
  /\ now = DEFAULT_AUTO_INTERVAL
  /\ candleGenerator = NewCandleGenerator(now)
  /\ newCandle = NoCandle
  /\ step = NoStep
  /\ generated = 0
  /\ manualInput = NoManual
  /\ missedReads = MaxMissedReads
  /\ quiet = MaxMomentumCalls
  /\ eventCalls = <<>>
  /\ ServiceFresh
  /\ interval = DEFAULT_AUTO_INTERVAL
  /\ candles = <<>>
  /\ ApiFresh

\* A generateCandle call that takes a trending move
TrendingCandle ==
  /\ quiet > 0
  /\ quiet <= MaxMomentumCalls - FirstTrendingCall + 1
  /\ manualInput = NoManual
  /\ generated < MaxTrendingCalls
  /\ \E out \in {o \in generateCandle(candleGenerator, newCandle, NoManual, now) :
                    o.kind = "trend" /\ o.draws = LeastDraws} :
       /\ candleGenerator' = out.g
       /\ newCandle' = out.candle
       /\ step' = StepOf(out)
  /\ generated' = generated + 1
  /\ quiet' = quiet - 1
  /\ now' = now + DEFAULT_AUTO_INTERVAL
  /\ UNCHANGED <<manualInput, missedReads, eventCalls, svcVars, apiVars>>

MomentumNext == QuietCandle \/ TrendingCandle

SpecMomentum == MomentumInit /\ [][MomentumNext]_vars

\* ------------------------------------------------------------------------
\* The generator under a lasting 'down' control: the price slides by the
\* per-step cap call after call, each low a new support level, until the
\* set of levels is full.
\* ------------------------------------------------------------------------

\* generateCandle calls per run
MaxSlideCalls == 15

\* The control the slide is made under
SlideControl == [direction |-> "down", speed |-> 200, intensity |-> 15000]

SlideInit ==
  /\ now = DEFAULT_AUTO_INTERVAL
  /\ candleGenerator = NewCandleGenerator(now)
  /\ newCandle = NoCandle
  /\ step = NoStep
  /\ generated = 0
  /\ manualInput = SlideControl
  /\ missedReads = MaxMissedReads
  /\ quiet = 0
  /\ eventCalls = <<>>
  /\ ServiceFresh
  /\ interval = DEFAULT_AUTO_INTERVAL
  /\ candles = <<>>
  /\ ApiFresh

\* A generateCandle call under the control, with the wick draws at their
\* least
SlideCandle ==
  /\ generated < MaxSlideCalls
  /\ \E out \in ServiceResults(generateCandle(candleGenerator, newCandle, manualInput, now)) :
       /\ candleGenerator' = out.g
       /\ newCandle' = out.candle
       /\ step' = StepOf(out)
  /\ generated' = generated + 1
  /\ now' = now + DEFAULT_AUTO_INTERVAL
  /\ UNCHANGED <<manualInput, missedReads, quiet, eventCalls, svcVars, apiVars>>

SlideNext == SlideCandle

SpecSlide == SlideInit /\ [][SlideNext]_vars

\* ------------------------------------------------------------------------
\* The WebSocketService: clients connect, join and leave symbol rooms and
\* disconnect, while finalized candles are broadcast.
\* ------------------------------------------------------------------------

\* data.symbol of the subscribe and unsubscribe messages ("" is falsy)
SubscribeSymbols == {SYMBOL, "BTCUSD", ""}

SocketInit ==
  /\ now = DEFAULT_AUTO_INTERVAL
  /\ candleGenerator = NewCandleGenerator(now)
  /\ newCandle = NoCandle
  /\ step = NoStep
  /\ generated = 0
  /\ manualInput = NoManual
  /\ missedReads = 0
  /\ quiet = 0
  /\ eventCalls = <<>>
  /\ ServiceFresh
  /\ interval = DEFAULT_AUTO_INTERVAL
  /\ candles = <<>>
  /\ ApiFresh

SocketFrame == UNCHANGED <<genVars, svcVars, controls, activeControl, history, posted, status>>

\* io.on('connection'): a new socket, in no symbol room
Connect ==
  /\ \E c \in Clients :
       /\ ~sockets[c].connected
       /\ sockets' = [sockets EXCEPT ![c] = [connected |-> TRUE, rooms |-> {},
                                             updates |-> 0]]
  /\ SocketFrame

\* socket.on('subscribe')
Subscribe ==
  /\ \E c \in Clients, symbol \in SubscribeSymbols :
       /\ sockets[c].connected
       /\ sockets' = IF symbol # ""
                     THEN [sockets EXCEPT ![c].rooms = @ \cup {symbol}]
                     ELSE sockets
  /\ SocketFrame

\* socket.on('unsubscribe')
Unsubscribe ==
  /\ \E c \in Clients, symbol \in SubscribeSymbols :
       /\ sockets[c].connected
       /\ sockets' = IF symbol # ""
                     THEN [sockets EXCEPT ![c].rooms = @ \ {symbol}]
                     ELSE sockets
  /\ SocketFrame

\* socket.on('disconnect'): the socket leaves its rooms
Disconnect ==
  /\ \E c \in Clients :
       /\ sockets[c].connected
       /\ sockets' = [sockets EXCEPT ![c].connected = FALSE, ![c].rooms = {}]
  /\ SocketFrame

\* generateAndStoreCandle hands a finalized candle to broadcastCandle
CandleBroadcast ==
  /\ sockets' = broadcastCandle(sockets, SYMBOL)
  /\ SocketFrame

SocketNext == Connect \/ Subscribe \/ Unsubscribe \/ Disconnect \/ CandleBroadcast

SpecSocket == SocketInit /\ [][SocketNext]_vars

\* The step ran the auto-mode logic: no control, or a neutral one
AutoLogicStep == step.manual.direction \in {NoValue, "neutral"}

C27_ExtremeCapOnlyOnEventStep ==
  (generated > 0 /\ step.kind # "event") =>
    /\ step.maxChange \in {MAX_NORMAL_CHANGE, MAX_VOLATILE_CHANGE}
    /\ ~step.tooFar =>
         Abs(step.priceChange) * ONE <= MAX_VOLATILE_CHANGE * step.previousClose

\* ------------------------------------------------------------------------
\* The Stability Governor on its own: applyCircuitBreakers applied once to a
\* price and a proposed change, in a generator whose counters, trend,
\* volatility history and recent prices are drawn
\* ------------------------------------------------------------------------

\* The prices applyCircuitBreakers is given: 7.00, 10.00, 12.90 and 14.00
GovernorPrices == {(k * DEFAULT_BASE_PRICE) \div 100 : k \in {70, 100, 129, 140}}

\* The changes proposed, as fractions of the price: none, and 1%, 2.5%, 2.6%,
\* 5%, 8%, 12% and 40% both ways
GovernorFractions == {0} \cup {sign * f : sign \in {-1, 1}, f \in {100, 250, 260, 500, 800, 1200, 4000}}

\* The generators applyCircuitBreakers runs in: eventCooldown at and around
\* 25, a quiet or a volatile history, no recent price or recent prices at
\* 10.00, consolidationCounter below and above 10, and a trend
GovernorStates ==
  {[NewCandleGenerator(DEFAULT_AUTO_INTERVAL) EXCEPT
      !.eventCooldown = ec, !.volatilityHistory = vh, !.recentHighs = rp,
      !.recentLows = rp, !.consolidationCounter = cc, !.currentTrend = tr] :
     ec \in {0, 25, 26}, vh \in {<<>>, <<400>>},
     rp \in {<<>>, <<DEFAULT_BASE_PRICE>>}, cc \in {0, 5, 15},
     tr \in {0, 4001, -3000}}

GovernorInit ==
  /\ now = DEFAULT_AUTO_INTERVAL
  /\ candleGenerator \in GovernorStates
  /\ newCandle = NoCandle
  /\ \E currentPrice \in GovernorPrices, f \in GovernorFractions :
       step = [NoStep EXCEPT !.previousClose = currentPrice,
                             !.rawChange = MulF(currentPrice, f)]
  /\ generated = 0
  /\ manualInput = NoManual
  /\ missedReads = 0
  /\ quiet = 0
  /\ eventCalls = <<>>
  /\ ServiceFresh
  /\ interval = DEFAULT_AUTO_INTERVAL
  /\ candles = <<>>
  /\ ApiFresh

\* applyCircuitBreakers(currentPrice, priceChange)
Govern ==
  /\ generated = 0
  /\ LET cb == applyCircuitBreakers(candleGenerator, step.previousClose, step.rawChange)
     IN /\ candleGenerator' = cb.g
        /\ step' = [step EXCEPT !.priceChange = cb.val, !.maxChange = cb.maxChange,
                                !.capped = cb.capped, !.tooFar = cb.tooFar,
                                !.countersBefore = CountersOf(candleGenerator),
                                !.countersAfter = CountersOf(cb.g)]
  /\ generated' = 1
  /\ UNCHANGED <<now, newCandle, manualInput, missedReads, quiet, eventCalls, svcVars,
                 apiVars>>

GovernorNext == Govern

SpecGovernor == GovernorInit /\ [][GovernorNext]_vars

\* applyCircuitBreakers returns in this step
GovernedNow == generated = 0 /\ generated' = 1

\* The price the governor leaves: currentPrice + boundedDelta
GovernedPrice(st) == st.previousClose + st.priceChange

PerStepLimitReturned(st) ==
  IF st.capped
  THEN /\ Abs(st.priceChange) = MulF(st.previousClose, st.maxChange)
       /\ (st.priceChange > 0) = (st.rawChange > 0)
  ELSE st.priceChange = st.rawChange

ManualInForce == manualInput.direction \in {"up", "down"}

\* currentPrice * direction_sign * speed * intensity
ManualDelta(currentPrice, manual) ==
  (IF manual.direction = "up" THEN 1 ELSE -1)
    * MulF(MulF(currentPrice, manual.speed), manual.intensity)

\* The changes, before the circuit breakers, that a generateCandle call made
\* now can propose
ProposedChanges ==
  {out.rawChange : out \in generateCandle(candleGenerator, newCandle, manualInput, now)}

\* C31: with an active manual control of direction up or down, the step's
\* delta is currentPrice * direction_sign * speed * intensity, and it is
\* deterministic: every run of the step from the same state proposes the
\* same delta, whatever the draws, the regime and the counters, and the
\* step takes no event, consolidation or trending move
C31_ManualDeltaDeterministic ==
  /\ ManualInForce =>
       ProposedChanges = {ManualDelta(PreviousClose(candleGenerator, newCandle), manualInput)}
  /\ (generated > 0 /\ step.manual.direction \in {"up", "down"}) =>
       /\ step.kind = "manual"
       /\ step.rawChange = ManualDelta(step.previousClose, step.manual)
       /\ step.countersAfter = step.countersBefore

\* A second step under a down control, in a generator whose first step left
\* a volatility history and moved levels
C31_Witness ==
  /\ generated = 2
  /\ ManualInForce
  /\ step.manual.direction = "down"
  /\ step.rawChange < 0
  /\ Len(candleGenerator.volatilityHistory) = 2

\* A generateCandle call has been made and its regime update reached
RegimeUpdateReached == step.regimeBefore.marketRegime # NoValue

\* C32: on every regime transition currentTrend and the per-regime candle
\* counter are both 0 as the regime update is left; when the regime does not
\* change, the update leaves the regime, the trend and the counter as they
\* were.
C32_TransitionResetsTrendAndCount ==
  RegimeUpdateReached =>
    IF step.regimeAfter.marketRegime # step.regimeBefore.marketRegime
    THEN /\ step.regimeAfter.currentTrend = 0
         /\ step.regimeAfter.regimeCandleCount = 0
    ELSE step.regimeAfter = step.regimeBefore

\* A transition out of markup reached with momentum built up
C32_Witness ==
  /\ step.regimeBefore.marketRegime = "markup"
  /\ step.regimeBefore.currentTrend # 0
  /\ step.regimeAfter.marketRegime = "distribution"
  /\ candleGenerator.regimeCandleCount = 0

\* Candles generated since the regime was entered (or since the start), as a
\* call made now begins: the calls are one candle interval apart
CandlesInRegime == (now - candleGenerator.regimeStartTime) \div DEFAULT_AUTO_INTERVAL

\* C33: a regime, once entered, lasts at least 30 candles; in fact no regime
\* transition occurs on a call before which fewer than 40 candles have been
\* generated since the previous transition (or since the start).
C33_RegimeLastsThirtyCandles ==
  [][candleGenerator'.marketRegime # candleGenerator.marketRegime
       => /\ CandlesInRegime >= 40
          /\ CandlesInRegime >= 30]_vars

\* The third transition of a run, each one on the 41st call of its regime
C33_Witness ==
  /\ candleGenerator.marketRegime = "markdown"
  /\ step.regimeBefore.marketRegime = "distribution"
  /\ step.regimeBefore.regimeCandleCount = 41
  /\ now - candleGenerator.regimeStartTime = DEFAULT_AUTO_INTERVAL

\* C34: the regime is never changed by manual control: no regime transition
\* occurs on a generation step taken while a manual control is active (and
\* none on a step that is not a generateCandle call).
C34_NoTransitionUnderManualControl ==
  [][candleGenerator'.marketRegime # candleGenerator.marketRegime
       => /\ manualInput = NoManual
          /\ step' # step]_vars

\* C37: in every reachable state of the generator (no resetTrend call made),
\* currentTrend is 0 while the regime is accumulation or distribution, and
\* the trending moves are taken in markup and markdown only.
C37_NoMomentumOutsideTrendingRegimes ==
  /\ candleGenerator.marketRegime \in {"accumulation", "distribution"}
       => candleGenerator.currentTrend = 0
  /\ step.kind = "trend" => step.regimeAfter.marketRegime \in {"markup", "markdown"}

\* Distribution, entered from a markup in which a trending move was taken
C37_Witness ==
  /\ candleGenerator.marketRegime = "distribution"
  /\ candleGenerator.regimeCandleCount = 2
  /\ generated = MaxTrendingCalls
  /\ candleGenerator.currentTrend = 0

\* ------------------------------------------------------------------------
\* The live tick and the generator
\* ------------------------------------------------------------------------

\* This step is a firing of the live-tick timer
TickFired ==
  \E t \in timers :
    /\ t.kind = "tick"
    /\ t.due <= now
    /\ timers' = (timers \ {t}) \cup {Rearmed(t, PRICE_STREAM_INTERVAL)}

\* C39: a live tick moves currentPrice and the live candle's fields only: it
\* leaves the generator's state (regime, currentTrend, the consolidation and
\* event counters, the price and volatility histories, the support and
\* resistance levels), the last generated candle and the stored candles
\* unchanged.
C39_TickLeavesGeneratorAlone ==
  [][TickFired => /\ live' # live
                  /\ UNCHANGED <<candleGenerator, newCandle, step, generated,
                                 manualInput, eventCalls, candles>>]_vars

\* A tick fired after a candle has been generated
C39_Witness ==
  /\ generated > 0
  /\ liveSnapshot # NoSnapshot
  /\ liveSnapshot.timestamp > step.now
  /\ Len(candleGenerator.volatilityHistory) = generated

\* ------------------------------------------------------------------------
\* The support and resistance levels
\* ------------------------------------------------------------------------

\* The price a lies within 2% of the price b
WithinTwoPercentOf(a, b) == Abs(a - b) * 50 < b

\* No two levels of the set lie within 2% of each other, either way round
LevelsApart(levels) ==
  \A i, j \in 1..Len(levels) :
    i # j => ~WithinTwoPercentOf(levels[i].price, levels[j].price)

\* No level lies within 2% of a level added after it, the 2% being taken of
\* the later level's price (the set is kept in the order of addition)
LevelsApartFromLaterOnes(levels) ==
  \A i, j \in 1..Len(levels) :
    i < j => ~WithinTwoPercentOf(levels[i].price, levels[j].price)

\* Prices to add to a set of levels: each level's price, prices 1% off it and
\* a price 4% above it
ProbePrices(levels) ==
  UNION {{levels[i].price,
          levels[i].price + levels[i].price \div 100,
          levels[i].price - levels[i].price \div 100,
          levels[i].price + levels[i].price \div 25} : i \in 1..Len(levels)}

\* Adding a price that has a level within 2% of it leaves the number of
\* levels as it is, strengthens one such level by a fifth of the added
\* strength, up to 1, and gives it one more touch; adding any other price
\* appends a level
AddingMerges(levels, t) ==
  \A price \in ProbePrices(levels) : \A strength \in {6000, 8000} :
    LET after == addSupportResistance(levels, price, strength, t)
        near == {i \in 1..Len(levels) : WithinTwoPercentOf(levels[i].price, price)}
    IN IF near # {}
       THEN /\ Len(after) = Len(levels)
            /\ \E i \in near :
                 /\ after[i].price = levels[i].price
                 /\ after[i].strength = Min2(ONE, levels[i].strength + strength \div 5)
                 /\ after[i].touches = levels[i].touches + 1
                 /\ \A k \in 1..Len(levels) : k # i => after[k] = levels[k]
       ELSE /\ Len(after) = Len(levels) + 1
            /\ after[Len(after)].price = price

\* The levels a generateCandle call strengthened in place of adding a
\* near-duplicate are single and have more touches
MergedLevelsStrengthened ==
  generated' # generated =>
    \A price \in step'.merged :
      \A i \in LevelsAt(candleGenerator.supportResistanceLevels, price) :
        \A j \in LevelsAt(candleGenerator'.supportResistanceLevels, price) :
          /\ LevelsAt(candleGenerator'.supportResistanceLevels, price) = {j}
          /\ candleGenerator'.supportResistanceLevels[j].touches
               > candleGenerator.supportResistanceLevels[i].touches
          /\ candleGenerator'.supportResistanceLevels[j].strength <= ONE

\* C36 (as stated): at all times no two levels in the set lie within 2% of
\* each other.
C36_NoTwoLevelsWithinTwoPercent ==
  LevelsApart(candleGenerator.supportResistanceLevels)

\* C36 (amended): adding a level whose price has an existing level within 2%
\* of it (2% of the added price) never creates a new level: the existing one
\* is strengthened (capped at 1) and its touches grow; so at all times no
\* level lies within 2% of a level added after it, measured on the later
\* level's price.
C36_NearDuplicatesMerge ==
  /\ [](LevelsApartFromLaterOnes(candleGenerator.supportResistanceLevels))
  /\ [](AddingMerges(candleGenerator.supportResistanceLevels, now))
  /\ [][MergedLevelsStrengthened]_vars

\* A call that strengthened a level in place of adding a near-duplicate and
\* also added a level
C36_Witness ==
  /\ step.merged # {}
  /\ generated = 2
  /\ Len(candleGenerator.supportResistanceLevels) >= 3

\* C35: after every update of the support/resistance set it holds at most 15
\* levels, every retained level has a strength above 0.2, and no level the
\* update evicted for the limit of 15 was touched more recently than a level
\* it kept.
C35_MostRecentlyTouchedKept ==
  /\ Len(candleGenerator.supportResistanceLevels) <= 15
  /\ \A i \in 1..Len(candleGenerator.supportResistanceLevels) :
       /\ candleGenerator.supportResistanceLevels[i].strength > 2000
       /\ \A level \in step.evicted :
            level.lastTouch <= candleGenerator.supportResistanceLevels[i].lastTouch

\* ------------------------------------------------------------------------
\* The candle broadcast
\* ------------------------------------------------------------------------

\* C38: for every finalized candle, every connected client receives at most
\* one candle_update event for it, whether or not it has subscribed to the
\* candle's symbol room.
C38_OneCandleUpdatePerClient ==
  \A c \in Clients : sockets[c].connected => sockets[c].updates <= 1

=========================================================================
